---- MODULE Spec2Model ----
(***************************************************************************)
(* Copy-trading signal observers of nofx (package copytrading).            *)
(*                                                                         *)
(* One Observer (hyperliquidProvider or okxProvider) polls a venue, keeps  *)
(* a signed position snapshot (lastPositions) and a last-price map         *)
(* (lastPrices) and sends Signal values on the channel `out`.              *)
(*                                                                         *)
(* Sizes, prices and equity are integers (the code uses float64; NaN and   *)
(* infinities are outside the model).  A poll cycle is modelled at the     *)
(* grain of its suspension points: the fetches and the fill ingestion are  *)
(* one step, every loop iteration is one step, every channel send is one   *)
(* step that waits for room in the channel.                                *)
(***************************************************************************)
EXTENDS Integers, Sequences, FiniteSets, TLC

(* ------------------------------ bounds --------------------------------- *)
\* the wall clock is counted from the start of the running poll cycle (only
\* the timestamps of one cycle are compared) and runs from 0 to MaxClock
MaxClock == 1
\* capacity of the signal channel
ChanCap == 1
(* --------------------------- input domains ----------------------------- *)
Venues == {"hyperliquid", "okx"}
\* the identifier the factory is given: empty, whitespace only, or a name
Identifiers == {"", " ", "leader"}
\* position keys as the adapters produce them: the Hyperliquid state is
\* keyed by the upper-cased coin, the OKX positions by the formatted symbol
HLCoins == {"BTC", "ETH"}
OKXInstIDs == {"BTC-USDT-SWAP", "ETH-USDT-SWAP"}
OKXSymbols == {"BTCUSDT", "ETHUSDT"}
USDTSuffixed == OKXSymbols
Sizes == {0 - 1, 0, 1, 2}
Equities == {0, 7}
FillPrices == {0, 2}
MarketAnswers == {[err |-> TRUE, CurrentPrice |-> 0],
                  [err |-> TRUE, CurrentPrice |-> 5],
                  [err |-> FALSE, CurrentPrice |-> 0],
                  [err |-> FALSE, CurrentPrice |-> 2]}

(* ------------------------------ helpers -------------------------------- *)
Abs(x) == IF x < 0 THEN -x ELSE x

\* Go map read: the zero value when the key is absent
MapGet(m, k) == IF k \in DOMAIN m THEN m[k] ELSE 0

\* Go map write m[k] = v
MapPut(m, k, v) == [x \in DOMAIN m \cup {k} |-> IF x = k THEN v ELSE m[x]]

\* mutation of MapDelete: the entry stays in the map
MapDeleteKept(m, k) == m

\* Go delete(m, k)
MapDelete(m, k) == [x \in DOMAIN m \ {k} |-> m[x]]

EmptyMap == [x \in {} |-> 0]

NoSignal == [Symbol |-> "", Action |-> "", NotionalUSD |-> 0, Price |-> 0,
             LeaderEquity |-> 0, LeaderLeverage |-> 0, MarginMode |-> "",
             Timestamp |-> 0, DeltaSize |-> 0, LeaderPosBefore |-> 0,
             LeaderPosAfter |-> 0]

(* ------------------------- symbol conversion --------------------------- *)
\* convertHyperliquidSymbol: "" stays "", a coin already ending in USDT is
\* kept, any other coin gets the suffix USDT
convertHyperliquidSymbol(coin) ==
    IF coin = "" THEN ""
    ELSE IF coin \in USDTSuffixed THEN coin
    ELSE coin \o "USDT"

\* formatOKXSymbol: upper-case, drop "-SWAP", drop "-"; "" stays ""
formatOKXSymbol(instID) ==
    CASE instID = "BTC-USDT-SWAP" -> "BTCUSDT"
      [] instID = "ETH-USDT-SWAP" -> "ETHUSDT"
      [] OTHER -> instID

(* --------------------------- action names ------------------------------ *)
ActionOpenLong == "open_long"
ActionOpenShort == "open_short"
ActionCloseLong == "close_long"
ActionCloseShort == "close_short"
ActionAddLong == "add_long"
ActionAddShort == "add_short"
ActionReduceLong == "reduce_long"
ActionReduceShort == "reduce_short"

\* mutation of deriveActionFromDelta: the family is read off the sign of the
\* new size alone
deriveActionFromCurrSign(prev, curr) ==
    IF curr - prev = 0 THEN ""
    ELSE IF curr > 0 THEN ActionAddLong
    ELSE IF curr < 0 THEN ActionAddShort
    ELSE IF prev > 0 THEN ActionReduceLong ELSE ActionReduceShort

\* mutation of deriveActionFromDelta: the boundaries at zero are moved
\* (curr >= 0 for add_long, curr <= 0 for add_short)
deriveActionZeroBoundary(prev, curr) ==
    IF curr - prev = 0 THEN ""
    ELSE IF curr > prev
         THEN (IF curr >= 0 THEN ActionAddLong ELSE ActionReduceShort)
         ELSE (IF curr <= 0 THEN ActionAddShort ELSE ActionReduceLong)

\* deriveActionFromDelta(prev, curr)
deriveActionFromDelta(prev, curr) ==
    IF curr - prev = 0 THEN ""
    ELSE IF curr > prev
         THEN (IF curr > 0 THEN ActionAddLong ELSE ActionReduceShort)
         ELSE IF curr < prev
              THEN (IF curr < 0 THEN ActionAddShort ELSE ActionReduceLong)
              ELSE ""

(* ------------------------------- state --------------------------------- *)
VARIABLES
    venue,          \* which Observer variant this is
    identifier,     \* the identifier given to the constructor
    pc,             \* where Run is
    initialized,    \* p.initialized
    lastPositions,  \* p.lastPositions: key -> signed size
    lastPrices,     \* p.lastPrices: symbol -> last price
    lastCursor,     \* p.lastTID (Hyperliquid) / p.lastFillTime (OKX)
    positions,      \* fetchAndEmit local: fetched key -> meta
    accountValue,   \* fetchAndEmit local: fetched equity
    todo,           \* keys the running range loop has still to visit
    cur,            \* key of the iteration that is blocked in a send
    pending,        \* the Signal value of the send that is in progress
    out,            \* the signal channel (FIFO, capacity ChanCap)
    now,            \* wall clock, time.Now()
    tickReady,      \* a tick is waiting in ticker.C
    stopped,        \* stopCh is closed
    emitted,        \* history: signals sent by the current cycle, in order
    startInit,      \* history: p.initialized when the current cycle began
    startSnap,      \* history: p.lastPositions when the current cycle began
    cycleErr,       \* history: the current cycle returned an error
    lastFetched,    \* history: key -> size fetched by the last successful cycle
                    \*   (kept between cycles only)
    samePrev,       \* history: this cycle fetched the sizes the last one did
    abortedFirst,   \* history: a cycle aborted before initialization
    skipped,        \* history: keys skipped for want of a price this cycle
    retained,       \* history: key -> snapshot size kept at a price skip,
                    \*   until a signal for the key is sent or the fetched
                    \*   size is the snapshot size again
    unpriced,       \* history: keys the sweep removed without a price this cycle
    prevSkipped,    \* history: the last successful cycle skipped a key
    cleanPrev,      \* history: samePrev, and that cycle skipped no key
    \* several Observers on one channel (the channel itself is `out`)
    obsPhase,       \* Observer -> "select" or "cycle": where its Run is
    obsCycle,       \* Observer -> number of the poll cycle it runs or ran last
    obsLeft,        \* Observer -> signals its running cycle has still to send
    obsSeq,         \* Observer -> signals its running cycle has sent
    chanCap,        \* capacity the owner gave the channel (0: unbuffered)
    sentLog,        \* history: Observer -> the signals it sent, in order
    recvLog,        \* history: the signals the consumer received, in order
    stopPending,    \* history: stopCh was closed while a send was blocked
    call,           \* the configuration or factory function that was called
    arg,            \* its argument
    ret             \* what it returned

vars == <<venue, identifier, pc, initialized, lastPositions, lastPrices,
          lastCursor, positions, accountValue, todo, cur, pending, out, now,
          tickReady, stopped, emitted, startInit, startSnap, cycleErr,
          lastFetched, samePrev, abortedFirst, skipped,
          retained, unpriced, prevSkipped, cleanPrev,
          obsPhase, obsCycle, obsLeft, obsSeq, chanCap, sentLog, recvLog,
          stopPending, call, arg, ret>>

\* the state of the shared-channel view
chanVars == <<obsPhase, obsCycle, obsLeft, obsSeq, chanCap, sentLog, recvLog>>

\* what no step of a single Observer's Run changes
fixed == <<venue, identifier, chanVars, stopPending, call, arg, ret>>

provider == <<initialized, lastPositions, lastPrices, lastCursor>>
locals == <<positions, accountValue, todo, cur, pending>>
history == <<emitted, startInit, startSnap, cycleErr, lastFetched,
             samePrev, abortedFirst, skipped, retained, unpriced,
             prevSkipped, cleanPrev>>

IsHL == venue = "hyperliquid"

\* the keys of the fetched position map
PosKeys == IF IsHL THEN HLCoins ELSE OKXSymbols

\* the symbol a signal carries and the price cache is read with
\* (currSym := convertHyperliquidSymbol(sym); OKX uses sym itself)
CurrSym(sym) == IF IsHL THEN convertHyperliquidSymbol(sym) ELSE sym

(* ---------------- copy-trading configuration and factory --------------- *)
\* DefaultCopyTradingConfig
DefaultCopyTradingConfig ==
    [FollowOpen |-> TRUE, FollowAdd |-> TRUE, FollowReduce |-> TRUE,
     FollowRatio |-> 100, MinAmount |-> 0, MaxAmount |-> 0,
     SyncLeverage |-> TRUE, SyncMarginMode |-> TRUE]

\* mutation of normalizeCopyTradingConfig: the ratio test is `< 0`
normalizeRatioBelowZero(cfg) ==
    LET a == IF cfg.FollowRatio < 0
             THEN [cfg EXCEPT !.FollowRatio = DefaultCopyTradingConfig.FollowRatio]
             ELSE cfg
        b == IF a.MaxAmount < 0 THEN [a EXCEPT !.MaxAmount = 0] ELSE a
        c == IF b.MinAmount < 0 THEN [b EXCEPT !.MinAmount = 0] ELSE b
    IN  IF ~c.FollowOpen /\ ~c.FollowAdd /\ ~c.FollowReduce
        THEN [c EXCEPT !.FollowOpen = DefaultCopyTradingConfig.FollowOpen,
                       !.FollowAdd = DefaultCopyTradingConfig.FollowAdd,
                       !.FollowReduce = DefaultCopyTradingConfig.FollowReduce]
        ELSE c

\* normalizeCopyTradingConfig: ratio <= 0 becomes the default ratio, negative
\* amounts become 0, three false follow flags become the default flags
normalizeCopyTradingConfig(cfg) ==
    LET a == IF cfg.FollowRatio <= 0
             THEN [cfg EXCEPT !.FollowRatio = DefaultCopyTradingConfig.FollowRatio]
             ELSE cfg
        b == IF a.MaxAmount < 0 THEN [a EXCEPT !.MaxAmount = 0] ELSE a
        c == IF b.MinAmount < 0 THEN [b EXCEPT !.MinAmount = 0] ELSE b
    IN  IF ~c.FollowOpen /\ ~c.FollowAdd /\ ~c.FollowReduce
        THEN [c EXCEPT !.FollowOpen = DefaultCopyTradingConfig.FollowOpen,
                       !.FollowAdd = DefaultCopyTradingConfig.FollowAdd,
                       !.FollowReduce = DefaultCopyTradingConfig.FollowReduce]
        ELSE c

\* a JSON value of one object member: absent, a boolean, a number, or a
\* string (a string fits none of the struct's fields)
JAbsent == [Tag |-> "absent", B |-> FALSE, N |-> 0]
JBool(b) == [Tag |-> "bool", B |-> b, N |-> 0]
JNumber(n) == [Tag |-> "number", B |-> FALSE, N |-> n]
JString == [Tag |-> "string", B |-> FALSE, N |-> 0]

\* json.Unmarshal into a bool field / a float64 field: a member of the right
\* type is stored, an absent member leaves the field, a member of another
\* type is skipped and reported as the error
DecodeBool(old, j) == IF j.Tag = "bool" THEN j.B ELSE old
DecodeFloat(old, j) == IF j.Tag = "number" THEN j.N ELSE old
BoolTypeError(j) == j.Tag \in {"number", "string"}
FloatTypeError(j) == j.Tag \in {"bool", "string"}

\* the names of the struct's bool fields and float64 fields
BoolFields == {"FollowOpen", "FollowAdd", "FollowReduce",
               "SyncLeverage", "SyncMarginMode"}
FloatFields == {"FollowRatio", "MinAmount", "MaxAmount"}

\* json.Unmarshal([]byte(raw), &cfg): invalid syntax is found before anything
\* is stored; a type error skips its member, the other members are stored,
\* and the error is returned; null stores nothing
jsonUnmarshal(raw, cfg) ==
    IF raw.Kind = "syntax" THEN [Cfg |-> cfg, Err |-> TRUE]
    ELSE IF raw.Kind = "null" THEN [Cfg |-> cfg, Err |-> FALSE]
    ELSE [Cfg |-> [f \in DOMAIN cfg |->
                      IF f \in BoolFields
                      THEN DecodeBool(cfg[f], raw.Members[f])
                      ELSE DecodeFloat(cfg[f], raw.Members[f])],
          Err |-> \/ \E f \in BoolFields : BoolTypeError(raw.Members[f])
                  \/ \E f \in FloatFields : FloatTypeError(raw.Members[f])]

\* ParseCopyTradingConfig
ParseCopyTradingConfig(raw) ==
    LET cfg == DefaultCopyTradingConfig
    IN  IF raw.Kind \in {"empty", "blank"} THEN cfg
        ELSE LET u == jsonUnmarshal(raw, cfg)
             IN  IF u.Err THEN u.Cfg ELSE normalizeCopyTradingConfig(u.Cfg)

\* the error of NewProvider's default case
ErrUnsupported == "unsupported signal source type"

\* mutation of NewProvider: only the *_wallet names are known
NewProviderWalletOnly(cfg) ==
    IF cfg.Type = "hyperliquid_wallet"
    THEN [Provider |-> "hyperliquid", Err |-> ""]
    ELSE IF cfg.Type = "okx_wallet"
    THEN [Provider |-> "okx", Err |-> ""]
    ELSE [Provider |-> "nil", Err |-> ErrUnsupported]

\* NewProvider: switch cfg.Type
NewProvider(cfg) ==
    IF cfg.Type \in {"hyperliquid_wallet", "hyperliquid"}
    THEN [Provider |-> "hyperliquid", Err |-> ""]
    ELSE IF cfg.Type \in {"okx_wallet", "okx"}
    THEN [Provider |-> "okx", Err |-> ""]
    ELSE [Provider |-> "nil", Err |-> ErrUnsupported]

\* the configurations, stored documents and type names the functions are given
Ratios == {0 - 1, 0, 50}
Amounts == {0 - 1, 0, 5}
Configs ==
    [FollowOpen : BOOLEAN, FollowAdd : BOOLEAN, FollowReduce : BOOLEAN,
     FollowRatio : Ratios, MinAmount : Amounts, MaxAmount : Amounts,
     SyncLeverage : BOOLEAN, SyncMarginMode : BOOLEAN]
FlagMembers == {JAbsent, JBool(TRUE), JBool(FALSE), JString}
MemberSets ==
    [FollowOpen : FlagMembers, FollowAdd : FlagMembers,
     FollowReduce : FlagMembers,
     FollowRatio : {JAbsent, JNumber(0 - 1), JNumber(50), JString},
     MinAmount : {JAbsent, JNumber(0 - 1), JString},
     MaxAmount : {JAbsent, JNumber(0 - 1), JNumber(5)},
     SyncLeverage : {JAbsent, JBool(FALSE)},
     SyncMarginMode : {JAbsent, JBool(FALSE), JNumber(0)}]
NoMembers == [f \in BoolFields \cup FloatFields |-> JAbsent]
Raws ==
    {[Kind |-> k, Members |-> NoMembers] :
        k \in {"empty", "blank", "syntax", "null"}}
    \cup {[Kind |-> "object", Members |-> m] : m \in MemberSets}
Types == {"hyperliquid_wallet", "hyperliquid", "okx_wallet", "okx",
          "", "OKX", "binance"}

NoRaw == [Kind |-> "empty", Members |-> NoMembers]
NoArg == [Kind |-> "", Cfg |-> DefaultCopyTradingConfig, Raw |-> NoRaw,
          Type |-> ""]
NoRet == [Cfg |-> DefaultCopyTradingConfig, Provider |-> "", Err |-> ""]

(* --------------------------- construction ------------------------------ *)
\* newHyperliquidProvider / newOKXProvider, before Run is called: the
\* fields of the Observer, the locals of Run and the history
NotStarted ==
    /\ pc = "start"
    /\ stopPending = FALSE
    /\ initialized = FALSE
    /\ lastPositions = EmptyMap
    /\ lastPrices = EmptyMap
    /\ lastCursor = 0
    /\ positions = EmptyMap
    /\ accountValue = 0
    /\ todo = {}
    /\ cur = ""
    /\ pending = NoSignal
    /\ now = 0
    /\ tickReady = FALSE
    /\ stopped = FALSE
    /\ emitted = <<>>
    /\ startInit = FALSE
    /\ startSnap = EmptyMap
    /\ cycleErr = FALSE
    /\ lastFetched = EmptyMap
    /\ samePrev = FALSE
    /\ abortedFirst = FALSE
    /\ skipped = {}
    /\ retained = EmptyMap
    /\ unpriced = {}
    /\ prevSkipped = FALSE
    /\ cleanPrev = FALSE

\* no configuration or factory function is being followed
NotCalled ==
    /\ call = ""
    /\ arg = NoArg
    /\ ret = NoRet

Constructed ==
    /\ NotStarted
    /\ NotCalled

\* the shared-channel view is not in use
OneObserver ==
    /\ obsPhase = <<>>
    /\ obsCycle = <<>>
    /\ obsLeft = <<>>
    /\ obsSeq = <<>>
    /\ chanCap = ChanCap
    /\ sentLog = <<>>
    /\ recvLog = <<>>

\* one Observer of either variant, and an empty channel
Init ==
    /\ venue \in Venues
    /\ identifier \in Identifiers
    /\ out = <<>>
    /\ Constructed
    /\ OneObserver

(* ------------------------------- Run ----------------------------------- *)
\* mutation of TrimSpace: the identifier is stored as given
TrimSpaceKept(s) == s

\* strings.TrimSpace in the constructors, on the identifiers above
TrimSpace(s) == IF s = " " THEN "" ELSE s

\* Run: the identifier check and the creation of the ticker
RunStart ==
    /\ pc = "start"
    /\ pc' = IF TrimSpace(identifier) = "" THEN "failed" ELSE "fetch"
    /\ UNCHANGED <<fixed, provider, locals, out, now, tickReady,
                   stopped, history>>

(* --------------------------- fill ingestion ---------------------------- *)
Perms(n) == {p \in [1..n -> 1..n] : \A i, j \in 1..n : i # j => p[i] # p[j]}

\* Hyperliquid: fills[i].Time, then fills[i].TID
FillLess(a, b) ==
    IF a.Time = b.Time THEN a.TID < b.TID ELSE a.Time < b.Time

\* the fill loop of hyperliquidProvider.fetchAndEmit from fill i on;
\* st = [lastTID, maxTID, lastPrices]
RECURSIVE IngestFills(_, _, _)
IngestFills(fills, i, st) ==
    IF i > Len(fills)
    THEN [st EXCEPT !.lastTID = IF st.maxTID > st.lastTID
                                 THEN st.maxTID ELSE st.lastTID]
    ELSE LET fill == fills[i]
             symbol == convertHyperliquidSymbol(fill.Coin)
         IN  IF fill.TID <= st.lastTID
             THEN IngestFills(fills, i + 1, st)
             ELSE IF symbol = ""
             THEN IngestFills(fills, i + 1, [st EXCEPT !.lastTID = fill.TID])
             ELSE IngestFills(fills, i + 1,
                    [st EXCEPT
                       !.lastPrices = IF fill.Px > 0
                                      THEN MapPut(st.lastPrices, symbol, fill.Px)
                                      ELSE st.lastPrices,
                       !.maxTID = IF fill.TID > st.maxTID
                                  THEN fill.TID ELSE st.maxTID])

\* OKX: trades[i].FillTime, then trades[i].OrdID
TradeLess(a, b) ==
    IF a.FillTime = b.FillTime THEN a.OrdID < b.OrdID
    ELSE a.FillTime < b.FillTime

\* the trade loop of okxProvider.fetchAndEmit from trade i on;
\* st = [lastFillTime, maxFill, lastPrices]
RECURSIVE IngestTrades(_, _, _)
IngestTrades(trades, i, st) ==
    IF i > Len(trades)
    THEN [st EXCEPT !.lastFillTime = IF st.maxFill > st.lastFillTime
                                      THEN st.maxFill ELSE st.lastFillTime]
    ELSE LET trade == trades[i]
             symbol == formatOKXSymbol(trade.InstID)
         IN  IF trade.FillTime <= st.lastFillTime
             THEN IngestTrades(trades, i + 1, st)
             ELSE IF symbol = ""
             THEN IngestTrades(trades, i + 1, st)
             ELSE IngestTrades(trades, i + 1,
                    [st EXCEPT
                       !.lastPrices = IF trade.AvgPx > 0
                                      THEN MapPut(st.lastPrices, symbol, trade.AvgPx)
                                      ELSE st.lastPrices,
                       !.maxFill = IF trade.FillTime > st.maxFill
                                   THEN trade.FillTime ELSE st.maxFill])

\* the less function of the venue's sort
SliceLess(a, b) == IF IsHL THEN FillLess(a, b) ELSE TradeLess(a, b)

\* sort.Slice(fills, less): every order of the slice that less allows
\* (sort.Slice is not stable, elements that compare equal may land either way)
SortSlice(s) ==
    {[i \in 1..Len(s) |-> s[p[i]]] :
        p \in {q \in Perms(Len(s)) :
                 \A i, j \in 1..Len(s) : i < j => ~SliceLess(s[q[j]], s[q[i]])}}

\* sort and ingest: the possible [cursor, lastPrices] after the fill loop
Ingested(fills) ==
    IF IsHL
    THEN {[cursor |-> r.lastTID, lastPrices |-> r.lastPrices] :
            r \in {IngestFills(s, 1, [lastTID |-> lastCursor,
                                      maxTID |-> lastCursor,
                                      lastPrices |-> lastPrices]) :
                     s \in SortSlice(fills)}}
    ELSE {[cursor |-> r.lastFillTime, lastPrices |-> r.lastPrices] :
            r \in {IngestTrades(s, 1, [lastFillTime |-> lastCursor,
                                       maxFill |-> lastCursor,
                                       lastPrices |-> lastPrices]) :
                     s \in SortSlice(fills)}}

\* key -> size of a fetched position map
SizesOf(pos) == [k \in DOMAIN pos |-> pos[k].Size]

\* mutation of InitSnapshot: the snapshot loses the sign of the sizes
InitSnapshotUnsigned(snap, pos) ==
    [k \in DOMAIN snap \cup DOMAIN pos |->
        IF k \in DOMAIN pos THEN Abs(pos[k].Size) ELSE snap[k]]

\* for sym, meta := range positions { p.lastPositions[sym] = meta.Size }
InitSnapshot(snap, pos) ==
    [k \in DOMAIN snap \cup DOMAIN pos |->
        IF k \in DOMAIN pos THEN pos[k].Size ELSE snap[k]]

\* mutation of StoreSize: the snapshot entry is not written
StoreSizeDropped(snap, sym, size) == snap

\* p.lastPositions[sym] = meta.Size, after the signals of sym are sent
StoreSize(snap, sym, size) == MapPut(snap, sym, size)

(* ----------------------------- poll cycle ------------------------------ *)
\* mutation of PollAbort: the fills are ingested before the error is
\* returned, so the cursor moves
PollAbortAfterIngest ==
    /\ pc = "fetch"
    /\ pc' = "select"
    /\ cycleErr' = TRUE
    /\ emitted' = <<>>
    /\ startInit' = initialized
    /\ startSnap' = lastPositions
    /\ skipped' = {}
    /\ abortedFirst' = (abortedFirst \/ ~initialized)
    /\ samePrev' = FALSE
    /\ cleanPrev' = FALSE
    /\ unpriced' = {}
    /\ lastCursor' = 1
    /\ UNCHANGED <<fixed, initialized, lastPositions, lastPrices,
                   locals, out, now, tickReady, stopped, lastFetched,
                   retained, prevSkipped>>

\* fetchAndEmit returns an error before it touches the Observer: a fetch
\* failed or the equity is not positive
PollAbort ==
    /\ pc = "fetch"
    /\ pc' = "select"
    /\ cycleErr' = TRUE
    /\ emitted' = <<>>
    /\ startInit' = initialized
    /\ startSnap' = lastPositions
    /\ skipped' = {}
    /\ abortedFirst' = (abortedFirst \/ ~initialized)
    /\ samePrev' = FALSE
    /\ cleanPrev' = FALSE
    /\ unpriced' = {}
    /\ UNCHANGED <<fixed, provider, locals, out, now, tickReady,
                   stopped, lastFetched, retained, prevSkipped>>

\* fetchAndEmit up to the first range loop: the three fetches succeed with
\* fills, equity eq > 0 and positions pos; fills are ingested; an
\* uninitialized Observer takes the snapshot and returns
PollFetch(fills, eq, pos) ==
    /\ pc = "fetch"
    /\ eq > 0
    /\ \E r \in Ingested(fills) :
         /\ lastCursor' = r.cursor
         /\ lastPrices' = r.lastPrices
    /\ emitted' = <<>>
    /\ startInit' = initialized
    /\ startSnap' = lastPositions
    /\ skipped' = {}
    /\ cycleErr' = FALSE
    /\ samePrev' = (initialized /\ SizesOf(pos) = lastFetched)
    /\ cleanPrev' = (initialized /\ SizesOf(pos) = lastFetched /\ ~prevSkipped)
    /\ unpriced' = {}
    /\ IF ~initialized
       THEN /\ lastPositions' = InitSnapshot(lastPositions, pos)
            /\ initialized' = TRUE
            /\ pc' = "select"
            /\ lastFetched' = SizesOf(pos)
            /\ UNCHANGED <<positions, accountValue, todo>>
       ELSE /\ positions' = pos
            /\ accountValue' = eq
            /\ todo' = DOMAIN pos
            /\ pc' = "diff"
            /\ lastFetched' = EmptyMap
            /\ UNCHANGED <<lastPositions, initialized>>
    /\ UNCHANGED <<fixed, cur, pending, out, now, tickReady,
                   stopped, abortedFirst, retained, prevSkipped>>

(* ------------------------------ signals -------------------------------- *)
\* mutation of MkSignal: the notional is size * price without math.Abs
MkSignalSignedNotional(symbol, action, size, price, equity, lev, mode, delta, before, after) ==
    [Symbol |-> symbol, Action |-> action, NotionalUSD |-> size * price,
     Price |-> price, LeaderEquity |-> equity, LeaderLeverage |-> lev,
     MarginMode |-> mode, Timestamp |-> now, DeltaSize |-> delta,
     LeaderPosBefore |-> before, LeaderPosAfter |-> after]

\* a Signal composite literal; time.Now() is read when the value is built
MkSignal(symbol, action, size, price, equity, lev, mode, delta, before, after) ==
    [Symbol |-> symbol, Action |-> action, NotionalUSD |-> Abs(size) * price,
     Price |-> price, LeaderEquity |-> equity, LeaderLeverage |-> lev,
     MarginMode |-> mode, Timestamp |-> now, DeltaSize |-> delta,
     LeaderPosBefore |-> before, LeaderPosAfter |-> after]

\* market.Get is called only when the cache holds no positive price
NoMarketCall == [err |-> TRUE, CurrentPrice |-> 0]
MarketCalls(currSym) ==
    IF MapGet(lastPrices, currSym) > 0 THEN {NoMarketCall} ELSE MarketAnswers

\* mutation of ResolvePrice: the answer of market.Get is taken whenever its
\* CurrentPrice is positive, the error is not looked at
ResolvePriceErrIgnored(currSym, md) ==
    LET cached == MapGet(lastPrices, currSym)
    IN  IF cached > 0
        THEN [price |-> cached, lastPrices |-> lastPrices]
        ELSE IF md.CurrentPrice > 0
        THEN [price |-> md.CurrentPrice,
              lastPrices |-> MapPut(lastPrices, currSym, md.CurrentPrice)]
        ELSE [price |-> cached, lastPrices |-> lastPrices]

\* price := p.lastPrices[currSym]; if price <= 0 { market.Get ... }
\* md is the answer of market.Get; the result is the price and the cache
ResolvePrice(currSym, md) ==
    LET cached == MapGet(lastPrices, currSym)
    IN  IF cached > 0
        THEN [price |-> cached, lastPrices |-> lastPrices]
        ELSE IF ~md.err /\ md.CurrentPrice > 0
        THEN [price |-> md.CurrentPrice,
              lastPrices |-> MapPut(lastPrices, currSym, md.CurrentPrice)]
        ELSE [price |-> cached, lastPrices |-> lastPrices]

\* the first signal of a direction flip: close the previous side
FlipCloseSignal(sym, prev, price) ==
    MkSignal(CurrSym(sym),
             IF prev > 0 THEN ActionCloseLong ELSE ActionCloseShort,
             prev, price, accountValue, positions[sym].Leverage,
             positions[sym].MarginMode, -prev, prev, 0)

\* the second signal of a direction flip: open the new side
FlipOpenSignal(sym, size, price) ==
    MkSignal(CurrSym(sym),
             IF size < 0 THEN ActionOpenShort ELSE ActionOpenLong,
             size, price, accountValue, positions[sym].Leverage,
             positions[sym].MarginMode, size, 0, size)

\* the signal of a change that is no flip
DeltaSignal(sym, prev, size, price) ==
    MkSignal(CurrSym(sym), deriveActionFromDelta(prev, size), size - prev,
             price, accountValue, positions[sym].Leverage,
             positions[sym].MarginMode, size - prev, prev, size)

\* mutation of SweepSignal: the close carries the leverage floor 1 and the
\* margin mode "cross"
SweepSignalWithMeta(sym, prev, price) ==
    [MkSignal(CurrSym(sym),
              IF prev < 0 THEN ActionCloseShort ELSE ActionCloseLong,
              prev, price, accountValue, 1, "cross", -prev, prev, 0)
       EXCEPT !.Price = IF IsHL THEN price ELSE 0]

\* the close of a symbol that disappeared; the OKX literal sets no Price
SweepSignal(sym, prev, price) ==
    [MkSignal(CurrSym(sym),
              IF prev < 0 THEN ActionCloseShort ELSE ActionCloseLong,
              prev, price, accountValue, 0, "", -prev, prev, 0)
       EXCEPT !.Price = IF IsHL THEN price ELSE 0]

\* mutation of IsFlip: only the long-to-short change counts as a flip
IsFlipLongToShort(prev, size) == prev > 0 /\ size < 0

\* prev > 0 && meta.Size < 0, or prev < 0 && meta.Size > 0
IsFlip(prev, size) == (prev > 0 /\ size < 0) \/ (prev < 0 /\ size > 0)

(* --------------------- first loop: fetched positions ------------------- *)
\* one iteration of `for sym, meta := range positions` up to its first
\* channel send (or to its end when it sends nothing)
DiffStep(sym) ==
    /\ pc = "diff"
    /\ sym \in todo
    /\ LET size == positions[sym].Size
           prev == MapGet(lastPositions, sym)
           delta == size - prev
       IN  IF delta = 0
           THEN /\ todo' = todo \ {sym}
                /\ retained' = MapDelete(retained, sym)
                /\ UNCHANGED <<pc, cur, pending, lastPositions, lastPrices,
                               skipped>>
           ELSE \E md \in MarketCalls(CurrSym(sym)) :
                  LET r == ResolvePrice(CurrSym(sym), md)
                  IN  /\ lastPrices' = r.lastPrices
                      /\ IF r.price <= 0
                         THEN /\ todo' = todo \ {sym}
                              /\ skipped' = skipped \cup {sym}
                              /\ retained' = IF sym \in DOMAIN retained
                                             THEN retained
                                             ELSE MapPut(retained, sym, prev)
                              /\ UNCHANGED <<pc, cur, pending, lastPositions>>
                         ELSE IF IsFlip(prev, size)
                         THEN /\ pending' = FlipCloseSignal(sym, prev, r.price)
                              /\ cur' = sym
                              /\ pc' = "flip_close"
                              /\ UNCHANGED <<todo, lastPositions, skipped,
                                             retained>>
                         ELSE IF deriveActionFromDelta(prev, size) = ""
                         THEN /\ lastPositions' = StoreSize(lastPositions, sym, size)
                              /\ todo' = todo \ {sym}
                              /\ UNCHANGED <<pc, cur, pending, skipped, retained>>
                         ELSE /\ pending' = DeltaSignal(sym, prev, size, r.price)
                              /\ cur' = sym
                              /\ pc' = "send"
                              /\ UNCHANGED <<todo, lastPositions, skipped,
                                             retained>>
    /\ UNCHANGED <<fixed, initialized, lastCursor, positions,
                   accountValue, out, now, tickReady, stopped, emitted,
                   startInit, startSnap, cycleErr, lastFetched, samePrev,
                   abortedFirst, unpriced, prevSkipped, cleanPrev>>

\* out <- pending, for the one signal of a non-flip change, and the
\* snapshot update that follows it
SendSignal ==
    /\ pc = "send"
    /\ Len(out) < ChanCap
    /\ out' = Append(out, pending)
    /\ emitted' = Append(emitted, pending)
    /\ lastPositions' = StoreSize(lastPositions, cur, positions[cur].Size)
    /\ todo' = todo \ {cur}
    /\ pc' = "diff"
    /\ cur' = ""
    /\ pending' = NoSignal
    /\ retained' = MapDelete(retained, cur)
    /\ UNCHANGED <<fixed, initialized, lastPrices, lastCursor,
                   positions, accountValue, now, tickReady, stopped, startInit,
                   startSnap, cycleErr, lastFetched, samePrev,
                   abortedFirst, skipped, unpriced, prevSkipped,
                   cleanPrev>>

\* out <- the close signal of a flip
SendFlipClose ==
    /\ pc = "flip_close"
    /\ Len(out) < ChanCap
    /\ out' = Append(out, pending)
    /\ emitted' = Append(emitted, pending)
    /\ pc' = "flip_open"
    /\ pending' = NoSignal
    /\ UNCHANGED <<fixed, provider, positions, accountValue, todo,
                   cur, now, tickReady, stopped, startInit, startSnap, cycleErr,
                   lastFetched, samePrev, abortedFirst, skipped,
                   retained, unpriced, prevSkipped, cleanPrev>>

\* the open signal of a flip is built once the close has been sent
BuildFlipOpen ==
    /\ pc = "flip_open"
    /\ pending' = FlipOpenSignal(cur, positions[cur].Size,
                                 MapGet(lastPrices, CurrSym(cur)))
    /\ pc' = "flip_open_send"
    /\ UNCHANGED <<fixed, provider, positions, accountValue, todo,
                   cur, out, now, tickReady, stopped, history>>

\* out <- the open signal of a flip, and the snapshot update that follows it
SendFlipOpen ==
    /\ pc = "flip_open_send"
    /\ Len(out) < ChanCap
    /\ out' = Append(out, pending)
    /\ emitted' = Append(emitted, pending)
    /\ lastPositions' = StoreSize(lastPositions, cur, positions[cur].Size)
    /\ todo' = todo \ {cur}
    /\ pc' = "diff"
    /\ cur' = ""
    /\ pending' = NoSignal
    /\ retained' = MapDelete(retained, cur)
    /\ UNCHANGED <<fixed, initialized, lastPrices, lastCursor,
                   positions, accountValue, now, tickReady, stopped, startInit,
                   startSnap, cycleErr, lastFetched, samePrev,
                   abortedFirst, skipped, unpriced, prevSkipped,
                   cleanPrev>>

\* the first loop has visited every fetched position; the second loop
\* ranges over the snapshot as it is now
DiffDone ==
    /\ pc = "diff"
    /\ todo = {}
    /\ pc' = "sweep"
    /\ todo' = DOMAIN lastPositions
    /\ UNCHANGED <<fixed, provider, positions, accountValue, cur,
                   pending, out, now, tickReady, stopped, history>>

(* -------------------- second loop: disappeared symbols ----------------- *)
\* one iteration of `for sym, prev := range p.lastPositions` up to its send
SweepStep(sym) ==
    /\ pc = "sweep"
    /\ sym \in todo
    /\ LET prev == lastPositions[sym]
       IN  IF sym \in DOMAIN positions
           THEN /\ todo' = todo \ {sym}
                /\ UNCHANGED <<pc, cur, pending, lastPositions, lastPrices,
                               unpriced>>
           ELSE IF prev = 0
           THEN /\ lastPositions' = MapDelete(lastPositions, sym)
                /\ todo' = todo \ {sym}
                /\ UNCHANGED <<pc, cur, pending, lastPrices, unpriced>>
           ELSE \E md \in MarketCalls(CurrSym(sym)) :
                  LET r == ResolvePrice(CurrSym(sym), md)
                  IN  /\ lastPrices' = r.lastPrices
                      /\ IF r.price <= 0
                         THEN /\ lastPositions' = MapDelete(lastPositions, sym)
                              /\ todo' = todo \ {sym}
                              /\ unpriced' = unpriced \cup {sym}
                              /\ UNCHANGED <<pc, cur, pending>>
                         ELSE /\ pending' = SweepSignal(sym, prev, r.price)
                              /\ cur' = sym
                              /\ pc' = "sweep_send"
                              /\ UNCHANGED <<todo, lastPositions, unpriced>>
    /\ UNCHANGED <<fixed, initialized, lastCursor, positions,
                   accountValue, out, now, tickReady, stopped, emitted,
                   startInit, startSnap, cycleErr, lastFetched, samePrev,
                   abortedFirst, skipped, retained, prevSkipped, cleanPrev>>

\* out <- the close of a disappeared symbol, and the delete that follows it
SendSweep ==
    /\ pc = "sweep_send"
    /\ Len(out) < ChanCap
    /\ out' = Append(out, pending)
    /\ emitted' = Append(emitted, pending)
    /\ lastPositions' = MapDelete(lastPositions, cur)
    /\ todo' = todo \ {cur}
    /\ pc' = "sweep"
    /\ cur' = ""
    /\ pending' = NoSignal
    /\ retained' = MapDelete(retained, cur)
    /\ UNCHANGED <<fixed, initialized, lastPrices, lastCursor,
                   positions, accountValue, now, tickReady, stopped, startInit,
                   startSnap, cycleErr, lastFetched, samePrev,
                   abortedFirst, skipped, unpriced, prevSkipped,
                   cleanPrev>>

\* the second loop is over: fetchAndEmit returns nil
SweepDone ==
    /\ pc = "sweep"
    /\ todo = {}
    /\ pc' = "select"
    /\ lastFetched' = SizesOf(positions)
    /\ prevSkipped' = (skipped # {})
    /\ positions' = EmptyMap
    /\ accountValue' = 0
    /\ UNCHANGED <<fixed, provider, todo, cur, pending, out, now,
                   tickReady, stopped, emitted, startInit, startSnap, cycleErr,
                   samePrev, abortedFirst, skipped, retained, unpriced,
                   cleanPrev>>

(* ------------------------- the select of Run --------------------------- *)
\* the select took a tick from ticker.C: the loop runs the next cycle
StartNextCycle ==
    /\ pc = "select"
    /\ tickReady' = FALSE
    /\ pc' = "fetch"
    /\ emitted' = <<>>
    /\ startInit' = FALSE
    /\ startSnap' = EmptyMap
    /\ cycleErr' = FALSE
    /\ skipped' = {}
    /\ samePrev' = FALSE
    /\ cleanPrev' = FALSE
    /\ unpriced' = {}
    /\ now' = 0
    /\ UNCHANGED <<fixed, provider, locals, out, stopped,
                   lastFetched, abortedFirst, retained, prevSkipped>>

\* case <-ticker.C, with a tick that was waiting when Run reached the select
SelectTick ==
    /\ tickReady
    /\ StartNextCycle

\* a stop case that does not return: Run waits in its select again
SelectStopWaitsOn ==
    /\ pc = "select"
    /\ stopped
    /\ UNCHANGED vars

\* case <-stopCh: Run returns nil
SelectStop ==
    /\ pc = "select"
    /\ stopped
    /\ pc' = "returned"
    /\ UNCHANGED <<fixed, provider, locals, out, now, tickReady,
                   stopped, history>>

(* ---------------------------- environment ------------------------------ *)
\* the consumer of the channel receives the oldest signal
Recv ==
    /\ out # <<>>
    /\ out' = Tail(out)
    /\ UNCHANGED <<fixed, pc, provider, locals, now, tickReady,
                   stopped, history>>

\* the wall clock advances while a cycle runs
ClockAdvance ==
    /\ pc \notin {"start", "fetch", "select", "failed", "returned"}
    /\ now < MaxClock
    /\ now' = now + 1
    /\ UNCHANGED <<fixed, pc, provider, locals, out, tickReady,
                   stopped, history>>

\* the ticker fires (ticker.C holds at most one tick)
Tick ==
    /\ pc \notin {"start", "failed", "returned"}
    /\ ~tickReady
    /\ tickReady' = TRUE
    /\ UNCHANGED <<fixed, pc, provider, locals, out, now, stopped,
                   history>>

\* the pcs of the blocking sends `out <- ...`
SendPcs == {"send", "flip_close", "flip_open_send", "sweep_send"}

\* the owner closes stopCh
Stop ==
    /\ ~stopped
    /\ stopped' = TRUE
    /\ stopPending' = (pc \in SendPcs /\ Len(out) >= chanCap)
    /\ UNCHANGED <<venue, identifier, chanVars, call, arg, ret, pc, provider,
                   locals, out, now, tickReady, history>>

(* ------------------------- inputs of a cycle --------------------------- *)
\* the fills one response may carry (Hyperliquid fills / OKX trade records)
HLFills == [Coin : HLCoins \cup {""}, Px : FillPrices, Time : {1, 2}, TID : {1, 2}]
OKXTrades == [InstID : OKXInstIDs \cup {""}, AvgPx : FillPrices,
              FillTime : {1, 2}, OrdID : {1, 2}]

\* the main specification takes no fill or one fill, of time 1 and id 1
FillBatches ==
    {<<>>} \cup
    (IF IsHL THEN {<<f>> : f \in {g \in HLFills : g.Time = 1 /\ g.TID = 1}}
     ELSE {<<f>> : f \in {g \in OKXTrades : g.FillTime = 1 /\ g.OrdID = 1}})

\* the sizes a fetched position may have, per key: the first key takes every
\* size, the second key is either absent or long 1
PrimaryKey == IF IsHL THEN "BTC" ELSE "BTCUSDT"
SizesFor(k) == IF k = PrimaryKey THEN Sizes ELSE {1}

\* the leverage the venue reports for a key, in tenths: 3 and 0.5
LeverTenths(k) == IF k = PrimaryKey THEN 30 ELSE 5

\* normalize: lev := int(Leverage.Value); if lev <= 0 { lev = 1 }
hlLeverage(tenths) ==
    LET lev == tenths \div 10
    IN  IF lev <= 0 THEN 1 ELSE lev

\* fetchPositions: if lever <= 0 { lever = 1 }; Leverage: int(lever)
okxLeverage(tenths) ==
    LET lever == IF tenths <= 0 THEN 10 ELSE tenths
    IN  lever \div 10

LeverageFor(k) ==
    IF IsHL THEN hlLeverage(LeverTenths(k)) ELSE okxLeverage(LeverTenths(k))

MarginModeFor(k) == IF k = PrimaryKey THEN "cross" ELSE "isolated"

\* fetched position maps: any subset of the keys with the sizes above
PositionMaps ==
    UNION {{[k \in ks |-> [Size |-> sz[k], Leverage |-> LeverageFor(k),
                           MarginMode |-> MarginModeFor(k)]] :
              sz \in {f \in [ks -> Sizes] : \A k \in ks : f[k] \in SizesFor(k)}} :
           ks \in SUBSET PosKeys}

Poll ==
    \E fills \in FillBatches, eq \in Equities, pos \in PositionMaps :
        PollFetch(fills, eq, pos)

Diff == \E sym \in PosKeys : DiffStep(sym)

Sweep == \E sym \in PosKeys : SweepStep(sym)

Next ==
    \/ RunStart
    \/ PollAbort
    \/ Poll
    \/ Diff
    \/ SendSignal
    \/ SendFlipClose
    \/ BuildFlipOpen
    \/ SendFlipOpen
    \/ DiffDone
    \/ Sweep
    \/ SendSweep
    \/ SweepDone
    \/ SelectTick
    \/ Recv
    \/ ClockAdvance
    \/ (pc = "select" /\ out = <<>> /\ Tick)

Spec == Init /\ [][Next]_vars

(* ------------------------- Run with its stop --------------------------- *)
\* the pcs of the first range loop and of the second range loop
DiffPcs == {"diff", "send", "flip_close", "flip_open", "flip_open_send"}
SweepPcs == {"sweep", "sweep_send"}

\* the pcs at which Run is not waiting in its select
Running == {"start", "fetch"} \cup DiffPcs \cup SweepPcs

\* stopCh is closed while Run is not waiting in its select
StopWhileRunning ==
    /\ pc \in Running
    /\ Stop

\* stopCh is closed while Run waits in its select with no tick: the select
\* is woken with the stop case and Run returns nil
StopAtSelect ==
    /\ pc = "select"
    /\ ~tickReady
    /\ ~stopped
    /\ stopped' = TRUE
    /\ pc' = "returned"
    /\ UNCHANGED <<fixed, provider, locals, out, now, tickReady, history>>

\* the ticker fires while Run is not waiting in its select; the tick waits
TickWhileRunning ==
    /\ pc \in Running \ {"start"}
    /\ Tick

\* the ticker fires while Run waits in its select with stopCh open: the select
\* is woken with the tick case
TickAtSelect ==
    /\ ~tickReady
    /\ ~stopped
    /\ StartNextCycle

\* one position key, long or short or absent, and no fills
StopPositionMaps ==
    {p \in PositionMaps :
        /\ DOMAIN p \subseteq {PrimaryKey}
        /\ \A k \in DOMAIN p : p[k].Size \in {0 - 1, 1}}

PollQuiet ==
    \E eq \in Equities, pos \in StopPositionMaps : PollFetch(<<>>, eq, pos)

\* an Observer of either variant with an identifier, and a stop that may come
InitStop ==
    /\ venue \in Venues
    /\ identifier = "leader"
    /\ out = <<>>
    /\ Constructed
    /\ OneObserver

\* a step of the Run goroutine other than the select's choice and the sends
RunStep ==
    \/ RunStart
    \/ PollAbort
    \/ PollQuiet
    \/ Diff
    \/ BuildFlipOpen
    \/ DiffDone
    \/ Sweep
    \/ SweepDone

\* a channel send of the Run goroutine
RunSend ==
    \/ SendSignal
    \/ SendFlipClose
    \/ SendFlipOpen
    \/ SendSweep

NextStop ==
    \/ RunStep
    \/ RunSend
    \/ SelectTick
    \/ SelectStop
    \/ Recv
    \/ StopWhileRunning
    \/ StopAtSelect
    \/ TickWhileRunning
    \/ TickAtSelect

\* the goroutine of Run keeps running (its fetches end, by the HTTP client's
\* timeout); the consumer keeps draining the channel; a select with both
\* cases ready picks at random, so the stop case is not passed over forever
SpecStop ==
    /\ InitStop
    /\ [][NextStop]_vars
    /\ WF_vars(RunStep)
    /\ WF_vars(RunSend)
    /\ WF_vars(Recv)
    /\ SF_vars(SelectStop)

(* -------- calls of the configuration functions and the factory -------- *)
\* one of the functions is about to be called with an argument
InitCalls ==
    /\ venue = "hyperliquid"
    /\ identifier = "leader"
    /\ out = <<>>
    /\ NotStarted
    /\ OneObserver
    /\ call = ""
    /\ ret = NoRet
    /\ arg \in {[NoArg EXCEPT !.Kind = "cfg", !.Cfg = c] : c \in Configs}
               \cup {[NoArg EXCEPT !.Kind = "raw", !.Raw = r] : r \in Raws}
               \cup {[NoArg EXCEPT !.Kind = "type", !.Type = t] : t \in Types}

observerVars == <<venue, identifier, pc, provider, locals, out, now,
                  tickReady, stopped, history, chanVars, stopPending>>

CallNormalize ==
    /\ call = ""
    /\ arg.Kind = "cfg"
    /\ call' = "normalizeCopyTradingConfig"
    /\ ret' = [NoRet EXCEPT !.Cfg = normalizeCopyTradingConfig(arg.Cfg)]
    /\ UNCHANGED <<arg, observerVars>>

CallParse ==
    /\ call = ""
    /\ arg.Kind = "raw"
    /\ call' = "ParseCopyTradingConfig"
    /\ ret' = [NoRet EXCEPT !.Cfg = ParseCopyTradingConfig(arg.Raw)]
    /\ UNCHANGED <<arg, observerVars>>

CallNewProvider ==
    /\ call = ""
    /\ arg.Kind = "type"
    /\ call' = "NewProvider"
    /\ ret' = LET r == NewProvider(arg)
              IN  [NoRet EXCEPT !.Provider = r.Provider, !.Err = r.Err]
    /\ UNCHANGED <<arg, observerVars>>

NextCalls ==
    \/ CallNormalize
    \/ CallParse
    \/ CallNewProvider

SpecCalls == InitCalls /\ [][NextCalls]_vars

(* --------------------------- Sizing Translator ------------------------- *)
\* exact fractions n/d with d > 0, kept in lowest terms
RECURSIVE GCD(_, _)
GCD(a, b) == IF b = 0 THEN a ELSE GCD(b, a % b)

Rat(n, d) ==
    LET g == GCD(Abs(n), d)
    IN  [n |-> n \div g, d |-> d \div g]

RInt(i) == [n |-> i, d |-> 1]

RMul(a, b) ==
    LET g1 == GCD(Abs(a.n), b.d)
        g2 == GCD(Abs(b.n), a.d)
    IN  Rat((a.n \div g1) * (b.n \div g2), (a.d \div g2) * (b.d \div g1))

\* a / b for b > 0
RDiv(a, b) == RMul(a, [n |-> b.d, d |-> b.n])

RLess(a, b) == a.n * b.d < b.n * a.d

\* the family of a SignalAction: the part of its name before the side
ActionFamily(action) ==
    IF action \in {ActionOpenLong, ActionOpenShort} THEN "open"
    ELSE IF action \in {ActionAddLong, ActionAddShort} THEN "add"
    ELSE IF action \in {ActionReduceLong, ActionReduceShort} THEN "reduce"
    ELSE IF action \in {ActionCloseLong, ActionCloseShort} THEN "close"
    ELSE ""

\* mutation of Gate: add_* signals are gated by follow_open
GateAddByOpen(signal, C) ==
    LET fam == ActionFamily(signal.Action)
    IN  IF fam \in {"open", "add"} THEN C.FollowOpen
        ELSE IF fam \in {"reduce", "close"} THEN C.FollowReduce
        ELSE FALSE

\* gate by flag: open_* requires follow_open, add_* follow_add, reduce_* and
\* close_* follow_reduce
Gate(signal, C) ==
    LET fam == ActionFamily(signal.Action)
    IN  IF fam = "open" THEN C.FollowOpen
        ELSE IF fam = "add" THEN C.FollowAdd
        ELSE IF fam \in {"reduce", "close"} THEN C.FollowReduce
        ELSE FALSE

\* max(signal.leader_leverage, 1)
LeverageOrOne(signal) ==
    IF signal.LeaderLeverage > 1 THEN signal.LeaderLeverage ELSE 1

\* mutation of follower_notional: the margin is not multiplied back by the
\* leverage
follower_margin_only(signal, Ef, C) ==
    LET leader_margin == Rat(signal.NotionalUSD, LeverageOrOne(signal))
        proportion == RDiv(leader_margin, RInt(signal.LeaderEquity))
    IN  RMul(RMul(proportion, RInt(Ef)), Rat(C.FollowRatio, 100))

\* open/add: the leader's margin share of its equity, applied to the
\* follower's equity and the follow ratio, times the leverage
follower_notional(signal, Ef, C) ==
    LET leader_margin == Rat(signal.NotionalUSD, LeverageOrOne(signal))
        proportion == RDiv(leader_margin, RInt(signal.LeaderEquity))
        follower_notional_base ==
            RMul(RMul(proportion, RInt(Ef)), Rat(C.FollowRatio, 100))
    IN  RMul(follower_notional_base, RInt(LeverageOrOne(signal)))

\* apply bounds: below a positive min, raise to min; then above a positive
\* max, clamp to max; record which bound fired
ApplyBounds(result, C) ==
    LET raised == C.MinAmount > 0 /\ RLess(result, RInt(C.MinAmount))
        r1 == IF raised THEN RInt(C.MinAmount) ELSE result
        clamped == C.MaxAmount > 0 /\ RLess(RInt(C.MaxAmount), r1)
        r2 == IF clamped THEN RInt(C.MaxAmount) ELSE r1
    IN  [Notional |-> r2, MinTriggered |-> raised, MaxTriggered |-> clamped]

\* mutation of follower_close_size: the share is taken of the leader's
\* position after the change
follower_close_by_after(signal, followerPos) ==
    IF signal.LeaderPosAfter = 0
    THEN RInt(Abs(followerPos))
    ELSE RMul(RInt(Abs(followerPos)),
              Rat(Abs(signal.DeltaSize), Abs(signal.LeaderPosAfter)))

\* reduce/close: the leader's change as a share of its position, applied to
\* the follower's position; a full close takes the whole position
follower_close_size(signal, followerPos) ==
    IF signal.LeaderPosAfter = 0
    THEN RInt(Abs(followerPos))
    ELSE RMul(RInt(Abs(followerPos)),
              Rat(Abs(signal.DeltaSize), Abs(signal.LeaderPosBefore)))

\* a decision that produced no OrderRequest
Skipped ==
    [Decision |-> "skipped", Computed |-> RInt(0), Notional |-> RInt(0),
     MinTriggered |-> FALSE, MaxTriggered |-> FALSE, CloseSize |-> RInt(0),
     Leverage |-> 0]

\* the decision for one inbound Signal, the follower's equity Ef, the
\* follower's position in the signal's symbol and the configuration C;
\* Leverage 0 leaves the follower's setting
Translate(signal, Ef, followerPos, C) ==
    IF ~Gate(signal, C) THEN Skipped
    ELSE LET lev == IF C.SyncLeverage THEN signal.LeaderLeverage ELSE 0
         IN  IF ActionFamily(signal.Action) \in {"open", "add"}
             THEN LET computed == follower_notional(signal, Ef, C)
                      b == ApplyBounds(computed, C)
                  IN  [Decision |-> "order", Computed |-> computed,
                       Notional |-> b.Notional,
                       MinTriggered |-> b.MinTriggered,
                       MaxTriggered |-> b.MaxTriggered,
                       CloseSize |-> RInt(0), Leverage |-> lev]
             ELSE [Skipped EXCEPT
                      !.Decision = "order",
                      !.CloseSize = follower_close_size(signal, followerPos),
                      !.Leverage = lev]

(* ------------------- calls of the Sizing Translator -------------------- *)
\* the leader figures of the inbound signals: notional, leverage, equity
LeaderFigures ==
    {[N |-> 18000, L |-> 10, Eq |-> 100000],
     [N |-> 4, L |-> 0, Eq |-> 7],
     [N |-> 2, L |-> 3, Eq |-> 7]}

\* delta, position before and position after of a signal of each action
ChangeOf(action) ==
    IF action = ActionOpenLong THEN <<1, 0, 1>>
    ELSE IF action = ActionOpenShort THEN <<0 - 1, 0, 0 - 1>>
    ELSE IF action = ActionAddLong THEN <<1, 1, 2>>
    ELSE IF action = ActionAddShort THEN <<0 - 1, 0 - 1, 0 - 2>>
    ELSE IF action = ActionReduceLong THEN <<0 - 1, 2, 1>>
    ELSE IF action = ActionReduceShort THEN <<1, 0 - 2, 0 - 1>>
    ELSE IF action = ActionCloseLong THEN <<0 - 1, 1, 0>>
    ELSE <<1, 0 - 1, 0>>

SignalActions ==
    {ActionOpenLong, ActionOpenShort, ActionCloseLong, ActionCloseShort,
     ActionAddLong, ActionAddShort, ActionReduceLong, ActionReduceShort}

InboundSignals ==
    {[NoSignal EXCEPT !.Symbol = "BTCUSDT", !.Action = a,
                      !.NotionalUSD = f.N, !.Price = 2,
                      !.LeaderEquity = f.Eq, !.LeaderLeverage = f.L,
                      !.MarginMode = "cross",
                      !.DeltaSize = ChangeOf(a)[1],
                      !.LeaderPosBefore = ChangeOf(a)[2],
                      !.LeaderPosAfter = ChangeOf(a)[3]] :
        a \in SignalActions, f \in LeaderFigures}

\* the follower's equity and position, and the parsed configurations
FollowerEquities == {100, 5000}
FollowerPositions == {0 - 4, 0, 4}
SizingConfigs ==
    {normalizeCopyTradingConfig(c) :
        c \in [FollowOpen : BOOLEAN, FollowAdd : BOOLEAN,
               FollowReduce : BOOLEAN, FollowRatio : {0, 50},
               MinAmount : {0, 10, 50}, MaxAmount : {0 - 1, 20, 1000},
               SyncLeverage : BOOLEAN, SyncMarginMode : {TRUE}]}

InitSizing ==
    /\ venue = "hyperliquid"
    /\ identifier = "leader"
    /\ out = <<>>
    /\ NotStarted
    /\ OneObserver
    /\ call = ""
    /\ ret = Skipped
    /\ arg \in [Signal : InboundSignals, Ef : FollowerEquities,
                Pos : {4}, Cfg : SizingConfigs]

CallTranslate ==
    /\ call = ""
    /\ call' = "Translate"
    /\ ret' = Translate(arg.Signal, arg.Ef, arg.Pos, arg.Cfg)
    /\ UNCHANGED <<arg, observerVars>>

SpecSizing == InitSizing /\ [][CallTranslate]_vars

(* ------------- an Observer and the Sizing Translator behind it -------- *)
\* a fetch that returns at most the first key, in any of its sizes, no fills
PollPrimary ==
    \E eq \in Equities, pos \in {p \in PositionMaps : DOMAIN p \subseteq {PrimaryKey}} :
        PollFetch(<<>>, eq, pos)

\* the consumer takes the oldest signal from the channel and sizes it for a
\* follower that reduces, with the follower's equity and position as they are
Follow ==
    /\ out # <<>>
    /\ \E pos \in FollowerPositions :
         /\ arg' = [Signal |-> Head(out), Ef |-> 100, Pos |-> pos,
                    Cfg |-> DefaultCopyTradingConfig]
         /\ ret' = Translate(Head(out), 100, pos, DefaultCopyTradingConfig)
    /\ call' = "Translate"
    /\ out' = Tail(out)
    /\ UNCHANGED <<venue, identifier, chanVars, stopPending, pc, provider,
                   locals, now, tickReady, stopped, history>>

InitFollow ==
    /\ venue \in Venues
    /\ identifier = "leader"
    /\ out = <<>>
    /\ NotStarted
    /\ OneObserver
    /\ call = ""
    /\ arg = [Signal |-> NoSignal, Ef |-> 100, Pos |-> 0,
              Cfg |-> DefaultCopyTradingConfig]
    /\ ret = Skipped

NextFollow ==
    \/ RunStart
    \/ PollAbort
    \/ PollPrimary
    \/ Diff
    \/ BuildFlipOpen
    \/ DiffDone
    \/ Sweep
    \/ SweepDone
    \/ RunSend
    \/ TickAtSelect
    \/ Follow

SpecFollow == InitFollow /\ [][NextFollow]_vars

(* ------------- an Observer whose fills and market disagree ------------- *)
\* a response carries no fill or one fill of the first key at price 3, a
\* price the market-data fallback never answers
PricedFills ==
    {<<>>} \cup
    (IF IsHL
     THEN {<<[Coin |-> "BTC", Px |-> 3, Time |-> 1, TID |-> 1]>>}
     ELSE {<<[InstID |-> "BTC-USDT-SWAP", AvgPx |-> 3, FillTime |-> 1,
              OrdID |-> 1]>>})

\* a fetch that returns at most the first key, with the fills above
PollPriced ==
    \E fills \in PricedFills, eq \in Equities,
       pos \in {p \in PositionMaps : DOMAIN p \subseteq {PrimaryKey}} :
        PollFetch(fills, eq, pos)

InitPrice ==
    /\ venue \in Venues
    /\ identifier = "leader"
    /\ out = <<>>
    /\ Constructed
    /\ OneObserver

NextPrice ==
    \/ RunStart
    \/ PollAbort
    \/ PollPriced
    \/ Diff
    \/ BuildFlipOpen
    \/ DiffDone
    \/ Sweep
    \/ SweepDone
    \/ RunSend
    \/ TickAtSelect
    \/ Recv

SpecPrice == InitPrice /\ [][NextPrice]_vars

(* ------------- an Observer whose responses carry size strings --------- *)
\* size, _ := strconv.ParseFloat(szi, 64): the error is dropped, and the
\* value of a string that is no number is 0
ParseFloat(s) ==
    CASE s = "1" -> 1
      [] s = "2" -> 2
      [] s = "-1" -> 0 - 1
      [] OTHER -> 0

\* the size strings of a response (szi, pos): numbers, and one that is none
SziStrings == {"0", "1", "2", "-1", "x"}

\* fetched position maps of at most the first key; a record keeps, next to
\* the fields of the position meta, the size string it was parsed from
RawPositionMaps ==
    {EmptyMap} \cup
    {[k \in {PrimaryKey} |-> [Size |-> ParseFloat(szi),
                              Leverage |-> LeverageFor(k),
                              MarginMode |-> MarginModeFor(k),
                              Szi |-> szi]] : szi \in SziStrings}

PollParsed ==
    \E eq \in Equities, pos \in RawPositionMaps : PollFetch(<<>>, eq, pos)

NextParse ==
    \/ RunStart
    \/ PollAbort
    \/ PollParsed
    \/ Diff
    \/ BuildFlipOpen
    \/ DiffDone
    \/ Sweep
    \/ SweepDone
    \/ RunSend
    \/ TickAtSelect
    \/ Recv

SpecParse == InitPrice /\ [][NextParse]_vars

(* ------------- both variants fed the same normalized responses -------- *)
\* the one symbol of the responses, and the fills of a response in venue
\* neutral form: symbol ("" when the venue name does not normalize), price,
\* timestamp and id
PairSymbol == "BTCUSDT"
NormalFills ==
    {<<>>} \cup
    {<<f>> : f \in [Sym : {PairSymbol, ""}, Px : {0, 3}, Time : {1, 2},
                    Id : {1, 2}]}

\* the same fills as the venue's client returns them
AsHLFills(fills) ==
    [i \in 1..Len(fills) |->
        [Coin |-> IF fills[i].Sym = "" THEN "" ELSE "BTC",
         Px |-> fills[i].Px, Time |-> fills[i].Time, TID |-> fills[i].Id]]
AsOKXTrades(fills) ==
    [i \in 1..Len(fills) |->
        [InstID |-> IF fills[i].Sym = "" THEN "" ELSE "BTC-USDT-SWAP",
         AvgPx |-> fills[i].Px, FillTime |-> fills[i].Time,
         OrdID |-> fills[i].Id]]

\* the fill loop of variant v from cursor and cache: [cursor, lastPrices]
VariantIngest(v, fills, cursor, cache) ==
    IF v = "hyperliquid"
    THEN LET r == IngestFills(AsHLFills(fills), 1,
                     [lastTID |-> cursor, maxTID |-> cursor,
                      lastPrices |-> cache])
         IN  [cursor |-> r.lastTID, lastPrices |-> r.lastPrices]
    ELSE LET r == IngestTrades(AsOKXTrades(fills), 1,
                     [lastFillTime |-> cursor, maxFill |-> cursor,
                      lastPrices |-> cache])
         IN  [cursor |-> r.lastFillTime, lastPrices |-> r.lastPrices]

\* price := p.lastPrices[sym]; if price <= 0 { market.Get ... }, on a cache
\* given as a value
ResolveFrom(cache, sym, md) ==
    LET cached == MapGet(cache, sym)
    IN  IF cached > 0 THEN [price |-> cached, lastPrices |-> cache]
        ELSE IF ~md.err /\ md.CurrentPrice > 0
        THEN [price |-> md.CurrentPrice,
              lastPrices |-> MapPut(cache, sym, md.CurrentPrice)]
        ELSE [price |-> cached, lastPrices |-> cache]

\* the body of the first loop for the symbol and its fetched meta: the
\* signals sent, the snapshot and the cache afterwards
VariantDiff(snap, cache, meta, eq, md) ==
    LET prev == MapGet(snap, PairSymbol)
        size == meta.Size
        r == ResolveFrom(cache, PairSymbol, md)
        stored == StoreSize(snap, PairSymbol, size)
    IN  IF size - prev = 0
        THEN [signals |-> <<>>, snap |-> snap, lastPrices |-> cache]
        ELSE IF r.price <= 0
        THEN [signals |-> <<>>, snap |-> snap, lastPrices |-> r.lastPrices]
        ELSE IF IsFlip(prev, size)
        THEN [signals |->
                <<MkSignal(PairSymbol,
                           IF prev > 0 THEN ActionCloseLong
                           ELSE ActionCloseShort,
                           prev, r.price, eq, meta.Leverage, meta.MarginMode,
                           0 - prev, prev, 0),
                  MkSignal(PairSymbol,
                           IF size < 0 THEN ActionOpenShort
                           ELSE ActionOpenLong,
                           size, r.price, eq, meta.Leverage, meta.MarginMode,
                           size, 0, size)>>,
              snap |-> stored, lastPrices |-> r.lastPrices]
        ELSE IF deriveActionFromDelta(prev, size) = ""
        THEN [signals |-> <<>>, snap |-> stored, lastPrices |-> r.lastPrices]
        ELSE [signals |->
                <<MkSignal(PairSymbol, deriveActionFromDelta(prev, size),
                           size - prev, r.price, eq, meta.Leverage,
                           meta.MarginMode, size - prev, prev, size)>>,
              snap |-> stored, lastPrices |-> r.lastPrices]

\* the body of the second loop of variant v for the symbol, which is in the
\* snapshot and was not fetched; the OKX literal sets no Price
VariantSweep(v, snap, cache, eq, md) ==
    LET prev == snap[PairSymbol]
        r == ResolveFrom(cache, PairSymbol, md)
        gone == MapDelete(snap, PairSymbol)
    IN  IF prev = 0
        THEN [signals |-> <<>>, snap |-> gone, lastPrices |-> cache]
        ELSE IF r.price <= 0
        THEN [signals |-> <<>>, snap |-> gone, lastPrices |-> r.lastPrices]
        ELSE [signals |->
                <<[MkSignal(PairSymbol,
                            IF prev < 0 THEN ActionCloseShort
                            ELSE ActionCloseLong,
                            prev, r.price, eq, 0, "", 0 - prev, prev, 0)
                     EXCEPT !.Price = IF v = "hyperliquid" THEN r.price
                                      ELSE 0]>>,
              snap |-> gone, lastPrices |-> r.lastPrices]

\* one fetchAndEmit of variant v from the provider fields o on the response
\* in: the provider fields afterwards and the signals sent
VariantCycle(v, o, in) ==
    IF in.eq <= 0 THEN [o EXCEPT !.signals = <<>>]
    ELSE LET g == VariantIngest(v, in.fills, o.cursor, o.lastPrices)
         IN  IF ~o.initialized
             THEN [initialized |-> TRUE,
                   snap |-> InitSnapshot(o.snap, in.pos),
                   lastPrices |-> g.lastPrices, cursor |-> g.cursor,
                   signals |-> <<>>]
             ELSE LET d == IF PairSymbol \in DOMAIN in.pos
                           THEN VariantDiff(o.snap, g.lastPrices,
                                            in.pos[PairSymbol], in.eq, in.md)
                           ELSE IF PairSymbol \in DOMAIN o.snap
                           THEN VariantSweep(v, o.snap, g.lastPrices, in.eq,
                                             in.md)
                           ELSE [signals |-> <<>>, snap |-> o.snap,
                                 lastPrices |-> g.lastPrices]
                  IN  [initialized |-> TRUE, snap |-> d.snap,
                       lastPrices |-> d.lastPrices, cursor |-> g.cursor,
                       signals |-> d.signals]

\* the responses of a cycle: fills, equity, at most one position (leverage
\* and margin mode already normalized) and the market-data answer
PairResponses ==
    [fills : NormalFills, eq : Equities,
     pos : {EmptyMap} \cup
           {[k \in {PairSymbol} |->
                [Size |-> sz, Leverage |-> 3, MarginMode |-> "cross"]] :
              sz \in Sizes},
     md : MarketAnswers]

NewVariant ==
    [initialized |-> FALSE, snap |-> EmptyMap, lastPrices |-> EmptyMap,
     cursor |-> 0, signals |-> <<>>]

\* both variants run one cycle on the same responses; ret keeps the two
\* providers with the signals of the cycle
PairCycle ==
    /\ \E in \in PairResponses :
         ret' = [hl |-> VariantCycle("hyperliquid", ret.hl, in),
                 okx |-> VariantCycle("okx", ret.okx, in)]
    /\ call' = "cycle"
    /\ UNCHANGED <<venue, identifier, chanVars, stopPending, arg, pc,
                   provider, locals, out, now, tickReady, stopped, history>>

InitPair ==
    /\ venue = "hyperliquid"
    /\ identifier = "leader"
    /\ out = <<>>
    /\ NotStarted
    /\ OneObserver
    /\ call = ""
    /\ arg = NoArg
    /\ ret = [hl |-> NewVariant, okx |-> NewVariant]

SpecPair == InitPair /\ [][PairCycle]_vars

(* ---------------------- the fill loop on its own ----------------------- *)
\* the fills of one response: none, one or two with different ids (tid,
\* ordId), in the order of the response
ResponseFills ==
    LET fs == IF IsHL
              THEN [Coin : {"BTC", ""}, Px : {0, 2, 3}, Time : {1, 2},
                    TID : {1, 2}]
              ELSE [InstID : {"BTC-USDT-SWAP", ""}, AvgPx : {0, 2, 3},
                    FillTime : {1, 2}, OrdID : {1, 2}]
    IN  {<<>>} \cup {<<f>> : f \in fs}
        \cup {b \in {<<f, g>> : f, g \in fs} :
                 IF IsHL THEN b[1].TID # b[2].TID ELSE b[1].OrdID # b[2].OrdID}

\* the sort and the fill loop of a successful fetchAndEmit, for the first two
\* responses of an Observer; arg keeps the response and ret the cursor and the
\* price cache the loop started from
IngestStep ==
    /\ call \in {"", "ingested once"}
    /\ call' = IF call = "" THEN "ingested once" ELSE "ingested twice"
    /\ \E fills \in ResponseFills :
         /\ call = "" => Len(fills) <= 1
         /\ arg' = fills
         /\ \E r \in Ingested(fills) :
              /\ lastCursor' = r.cursor
              /\ lastPrices' = r.lastPrices
    /\ ret' = [cursor |-> lastCursor, lastPrices |-> lastPrices]
    /\ UNCHANGED <<venue, identifier, chanVars, stopPending, pc, initialized,
                   lastPositions, locals, out, now, tickReady, stopped,
                   history>>

InitIngest ==
    /\ venue \in Venues
    /\ identifier = "leader"
    /\ out = <<>>
    /\ NotStarted
    /\ OneObserver
    /\ call = ""
    /\ arg = <<>>
    /\ ret = [cursor |-> 0, lastPrices |-> EmptyMap]

SpecIngest == InitIngest /\ [][IngestStep]_vars

(* --------------- several Observers on one signal channel -------------- *)
\* poll cycles one Observer runs in this view
MaxCycles == 2
\* the capacities the owner may give the channel: unbuffered, ChanCap, more
ChanCaps == 0..(ChanCap + 1)
\* how many signals one poll cycle may send: none, or the two of a flip
SignalCounts == {0, 2}

\* everything of the single-Observer view but the channel
observerRest == <<venue, identifier, pc, provider, locals, now, tickReady,
                  stopped, history, stopPending, call, arg, ret>>

\* the Observers the factory built, sharing `out`; none has polled yet
InitChan ==
    /\ venue = "hyperliquid"
    /\ identifier = "leader"
    /\ Constructed
    /\ out = <<>>
    /\ chanCap \in ChanCaps
    /\ obsPhase = [o \in Venues |-> "select"]
    /\ obsCycle = [o \in Venues |-> 0]
    /\ obsLeft = [o \in Venues |-> 0]
    /\ obsSeq = [o \in Venues |-> 0]
    /\ sentLog = [o \in Venues |-> <<>>]
    /\ recvLog = <<>>

\* the signal an Observer sends next, named by who sends it and when
NextSignal(o) == [Observer |-> o, Cycle |-> obsCycle[o], Seq |-> obsSeq[o] + 1]

\* mutation of ChanSend: the value is put at the front of the buffer
ChanSendFront(ch, s) == <<s>> \o ch

\* out <- s on a buffered channel with room: s joins the end of the buffer
ChanSend(ch, s) == Append(ch, s)

\* Run calls fetchAndEmit, which will send n signals
ObsBeginCycle(o, n) ==
    /\ obsPhase[o] = "select"
    /\ obsCycle[o] < MaxCycles
    /\ obsPhase' = [obsPhase EXCEPT ![o] = "cycle"]
    /\ obsCycle' = [obsCycle EXCEPT ![o] = @ + 1]
    /\ obsLeft' = [obsLeft EXCEPT ![o] = n]
    /\ obsSeq' = [obsSeq EXCEPT ![o] = 0]
    /\ UNCHANGED <<observerRest, out, chanCap, sentLog, recvLog>>

\* out <- s with room in the buffer
ObsSend(o) ==
    /\ obsPhase[o] = "cycle"
    /\ obsLeft[o] > 0
    /\ Len(out) < chanCap
    /\ out' = ChanSend(out, NextSignal(o))
    /\ sentLog' = [sentLog EXCEPT ![o] = Append(@, NextSignal(o))]
    /\ obsLeft' = [obsLeft EXCEPT ![o] = @ - 1]
    /\ obsSeq' = [obsSeq EXCEPT ![o] = @ + 1]
    /\ UNCHANGED <<observerRest, obsPhase, obsCycle, chanCap, recvLog>>

\* out <- s on an unbuffered channel: the send completes with the receive
ObsHandoff(o) ==
    /\ obsPhase[o] = "cycle"
    /\ obsLeft[o] > 0
    /\ chanCap = 0
    /\ recvLog' = Append(recvLog, NextSignal(o))
    /\ sentLog' = [sentLog EXCEPT ![o] = Append(@, NextSignal(o))]
    /\ obsLeft' = [obsLeft EXCEPT ![o] = @ - 1]
    /\ obsSeq' = [obsSeq EXCEPT ![o] = @ + 1]
    /\ UNCHANGED <<observerRest, out, obsPhase, obsCycle, chanCap>>

\* fetchAndEmit returns; Run waits in its select
ObsEndCycle(o) ==
    /\ obsPhase[o] = "cycle"
    /\ obsLeft[o] = 0
    /\ obsPhase' = [obsPhase EXCEPT ![o] = "select"]
    /\ UNCHANGED <<observerRest, out, obsCycle, obsLeft, obsSeq, chanCap,
                   sentLog, recvLog>>

\* the consumer receives the oldest value of the buffer
ChanRecv ==
    /\ out # <<>>
    /\ recvLog' = Append(recvLog, Head(out))
    /\ out' = Tail(out)
    /\ UNCHANGED <<observerRest, obsPhase, obsCycle, obsLeft, obsSeq, chanCap,
                   sentLog>>

BeginCycle == \E o \in Venues, n \in SignalCounts : ObsBeginCycle(o, n)
Send == \E o \in Venues : ObsSend(o)
Handoff == \E o \in Venues : ObsHandoff(o)
EndCycle == \E o \in Venues : ObsEndCycle(o)

NextChan ==
    \/ BeginCycle
    \/ Send
    \/ Handoff
    \/ EndCycle
    \/ ChanRecv

SpecChan == InitChan /\ [][NextChan]_vars

(* ----------------------- vocabulary of the claims ---------------------- *)
\* the cycle that ran last is over and returned nil
CycleOk == pc = "select" /\ ~cycleErr

\* the first loop is through with the fetched key k
FirstLoopDone(k) ==
    /\ k \in DOMAIN positions
    /\ \/ pc \in DiffPcs /\ k \notin todo
       \/ pc \in SweepPcs

\* where the signals of symbol s stand among the emissions of this cycle
IdxOf(s) == {i \in 1..Len(emitted) : emitted[i].Symbol = s}

LongFamily == {ActionOpenLong, ActionAddLong, ActionReduceShort,
               ActionCloseShort}
ShortFamily == {ActionOpenShort, ActionAddShort, ActionReduceLong,
                ActionCloseLong}

(* -------------------------------- C1 ----------------------------------- *)
\* C1 (no spurious startup): a cycle that began with initialized = false and
\* returned nil has emitted nothing, has set initialized and has left the
\* snapshot holding exactly the fetched signed sizes; no cycle that began
\* uninitialized emits, and the channel stays empty until initialization.
C1_NoSpuriousStartup ==
    /\ (CycleOk /\ ~startInit) =>
          /\ emitted = <<>>
          /\ initialized
          /\ lastPositions = lastFetched
    /\ ~startInit => emitted = <<>>
    /\ ~initialized => out = <<>>

\* an initializing cycle, after an earlier failed one, that fetched a
\* non-zero position for every key
C1_Witness ==
    /\ CycleOk
    /\ ~startInit
    /\ abortedFirst
    /\ DOMAIN lastFetched = PosKeys
    /\ \A k \in PosKeys : lastFetched[k] # 0

(* -------------------------------- C2 ----------------------------------- *)
\* C2 as stated (exactly-once per change): a successful cycle after
\* initialization whose fetched positions equal those of the previous
\* successful cycle emits nothing.
C2_IdempotentPoll ==
    (CycleOk /\ startInit /\ samePrev) => emitted = <<>>

\* C2 amended: a successful cycle after initialization whose fetched
\* positions equal those of the previous successful cycle emits nothing,
\* provided that previous cycle skipped no symbol for want of a price.
C2_IdempotentPollAfterPricedCycle ==
    (CycleOk /\ startInit /\ cleanPrev) => emitted = <<>>

\* a repeated fetch of non-zero positions after a cycle that emitted for them
C2_Witness ==
    /\ CycleOk
    /\ startInit
    /\ cleanPrev
    /\ DOMAIN lastFetched = PosKeys
    /\ \A k \in PosKeys : lastFetched[k] # 0
    /\ lastPositions = lastFetched
    /\ lastPrices # EmptyMap

(* -------------------------------- C3 ----------------------------------- *)
SignalConsistent(s) ==
    /\ s.LeaderPosAfter - s.LeaderPosBefore = s.DeltaSize
    /\ s.Action \in LongFamily \cup ShortFamily
    /\ s.Action \in LongFamily => s.DeltaSize > 0
    /\ s.Action \in ShortFamily => s.DeltaSize < 0

\* C3 (signal consistency): every signal the Observer has sent, and every
\* signal waiting in the channel, has pos_after - pos_before = delta_size
\* and a delta_size whose sign is that of its action family.
C3_SignalConsistency ==
    /\ \A i \in 1..Len(emitted) : SignalConsistent(emitted[i])
    /\ \A i \in 1..Len(out) : SignalConsistent(out[i])

\* one cycle that sent the two signals of a flip and a non-flip signal
C3_Witness ==
    /\ Len(emitted) = 3
    /\ \E i \in 1..3 : emitted[i].Action \in {ActionOpenLong, ActionOpenShort}
    /\ \E i \in 1..3 : emitted[i].Action \in {ActionAddLong, ActionAddShort,
                                              ActionReduceLong,
                                              ActionReduceShort}

(* -------------------------------- C4 ----------------------------------- *)
\* a and b have opposite strict signs
OppositeSigns(a, b) == a * b < 0

\* the fetched keys whose size and snapshot size have opposite strict signs
FlipKeys ==
    {k \in DOMAIN positions :
        OppositeSigns(MapGet(startSnap, k), positions[k].Size)}

\* e closes the whole previous side prev
IsFlipClose(e, prev) ==
    /\ e.Action = (IF prev > 0 THEN ActionCloseLong ELSE ActionCloseShort)
    /\ e.NotionalUSD = Abs(prev) * e.Price
    /\ e.Price > 0
    /\ e.DeltaSize = 0 - prev
    /\ e.LeaderPosBefore = prev
    /\ e.LeaderPosAfter = 0

\* e opens the whole new side new
IsFlipOpen(e, new) ==
    /\ e.Action = (IF new < 0 THEN ActionOpenShort ELSE ActionOpenLong)
    /\ e.NotionalUSD = Abs(new) * e.Price
    /\ e.Price > 0
    /\ e.DeltaSize = new
    /\ e.LeaderPosBefore = 0
    /\ e.LeaderPosAfter = new

\* C4 (flip atomicity): for a fetched key whose size and snapshot size have
\* opposite strict signs and whose price is resolved, the cycle sends exactly
\* two signals of that symbol, the close of the previous side and then the
\* open of the new side, next to each other in the order of sending; the
\* snapshot entry is the previous size until both are sent and the new size
\* from then on.
C4_FlipAtomicity ==
    \A k \in FlipKeys :
        LET prev == startSnap[k]
            new == positions[k].Size
            idx == IdxOf(CurrSym(k))
        IN  /\ (FirstLoopDone(k) /\ k \notin skipped) =>
                  /\ \E i \in 1..(Len(emitted) - 1) :
                        /\ idx = {i, i + 1}
                        /\ IsFlipClose(emitted[i], prev)
                        /\ IsFlipOpen(emitted[i + 1], new)
                  /\ MapGet(lastPositions, k) = new
            /\ (pc \in DiffPcs /\ k \in todo) =>
                  /\ MapGet(lastPositions, k) = prev
                  /\ IF cur = k /\ pc \in {"flip_open", "flip_open_send"}
                     THEN /\ idx = {Len(emitted)}
                          /\ IsFlipClose(emitted[Len(emitted)], prev)
                     ELSE idx = {}

\* a short-to-long flip whose two signals went out after another symbol's
C4_Witness ==
    \E k \in FlipKeys :
        /\ FirstLoopDone(k)
        /\ k \notin skipped
        /\ startSnap[k] < 0
        /\ IdxOf(CurrSym(k)) = {2, 3}

(* -------------------------------- C5 ----------------------------------- *)
\* C5 (flip timestamps): the close and the open sent for one direction flip
\* carry the same timestamp.
C5_FlipTimestamps ==
    \A i \in 1..(Len(emitted) - 1) :
        (/\ emitted[i].Symbol = emitted[i + 1].Symbol
         /\ emitted[i].Action \in {ActionCloseLong, ActionCloseShort}
         /\ emitted[i + 1].Action \in {ActionOpenLong, ActionOpenShort})
        => emitted[i].Timestamp = emitted[i + 1].Timestamp

(* -------------------------------- C6 ----------------------------------- *)
\* C6 (absent-to-present opens): for a fetched key with no snapshot entry, a
\* non-zero size and a resolved price, the one signal sent has the action
\* open_long (size > 0) or open_short (size < 0) and pos_before = 0.
C6_AbsentToPresentOpens ==
    \A k \in DOMAIN positions :
        (/\ FirstLoopDone(k)
         /\ k \notin DOMAIN startSnap
         /\ positions[k].Size # 0
         /\ k \notin skipped)
        => \E i \in 1..Len(emitted) :
              /\ IdxOf(CurrSym(k)) = {i}
              /\ emitted[i].Action = (IF positions[k].Size > 0
                                      THEN ActionOpenLong ELSE ActionOpenShort)
              /\ emitted[i].LeaderPosBefore = 0

(* -------------------------------- C7 ----------------------------------- *)
\* the action C7 names for a change from prev to new that is no flip
NonFlipAction(prev, new) ==
    IF new > prev /\ new > 0 THEN ActionAddLong
    ELSE IF new > prev /\ new <= 0 THEN ActionReduceShort
    ELSE IF new < prev /\ new < 0 THEN ActionAddShort
    ELSE ActionReduceLong

\* the fetched keys whose size differs from the snapshot size without a flip
NonFlipKeys ==
    {k \in DOMAIN positions :
        /\ positions[k].Size # MapGet(startSnap, k)
        /\ ~OppositeSigns(MapGet(startSnap, k), positions[k].Size)}

\* C7 (non-flip classification): for a fetched key whose size differs from
\* the snapshot size, without a sign flip and with a resolved price, the
\* cycle sends exactly one signal: add_long, reduce_short, add_short or
\* reduce_long by the rules of the claim, delta_size = new - prev,
\* pos_before = prev, pos_after = new, notional_usd = |delta_size| * price;
\* the snapshot entry is prev until the signal is sent and new afterwards.
C7_NonFlipClassification ==
    \A k \in NonFlipKeys :
        LET prev == MapGet(startSnap, k)
            new == positions[k].Size
            idx == IdxOf(CurrSym(k))
        IN  /\ (FirstLoopDone(k) /\ k \notin skipped) =>
                  /\ \E i \in 1..Len(emitted) :
                        /\ idx = {i}
                        /\ emitted[i].Action = NonFlipAction(prev, new)
                        /\ emitted[i].DeltaSize = new - prev
                        /\ emitted[i].LeaderPosBefore = prev
                        /\ emitted[i].LeaderPosAfter = new
                        /\ emitted[i].Price > 0
                        /\ emitted[i].NotionalUSD =
                              Abs(new - prev) * emitted[i].Price
                  /\ k \in DOMAIN lastPositions
                  /\ lastPositions[k] = new
            /\ (pc \in DiffPcs /\ k \in todo) =>
                  /\ idx = {}
                  /\ MapGet(lastPositions, k) = prev

\* a short position reduced to zero, its signal sent and the snapshot updated
C7_Witness ==
    \E k \in NonFlipKeys :
        /\ FirstLoopDone(k)
        /\ k \notin skipped
        /\ MapGet(startSnap, k) < 0
        /\ positions[k].Size = 0
        /\ IdxOf(CurrSym(k)) # {}

(* -------------------------------- C8 ----------------------------------- *)
\* C8 (missing-price retention): a changed key that is skipped for want of a
\* price gets no signal in that cycle and keeps its snapshot entry; when a
\* later cycle resolves a price and fetches a size that still differs from the
\* snapshot value retained at the skip, the signal it builds for the key
\* carries that retained value as pos_before.
C8_MissingPriceRetention ==
    /\ \A k \in skipped :
          /\ IdxOf(CurrSym(k)) = {}
          /\ MapGet(lastPositions, k) = MapGet(startSnap, k)
          /\ (k \in DOMAIN startSnap) = (k \in DOMAIN lastPositions)
    /\ (/\ pc \in {"send", "flip_close"}
        /\ cur \in DOMAIN retained
        /\ positions[cur].Size # retained[cur]) =>
          pending.LeaderPosBefore = retained[cur]

(* -------------------------------- C9 ----------------------------------- *)
\* the keys with a non-zero snapshot size that the cycle just ended did not
\* fetch
Disappeared ==
    {k \in DOMAIN startSnap : startSnap[k] # 0 /\ k \notin DOMAIN lastFetched}

\* e closes the whole previous position prev of a symbol that disappeared
IsFullClose(e, prev) ==
    /\ e.Action = (IF prev > 0 THEN ActionCloseLong ELSE ActionCloseShort)
    /\ e.DeltaSize = 0 - prev
    /\ e.LeaderPosBefore = prev
    /\ e.LeaderPosAfter = 0

\* C9 (full-close sync): a successful cycle after initialization has sent,
\* for every key with a non-zero snapshot size that it did not fetch, a
\* close_long/close_short for the full previous size, and has cleared the
\* snapshot entry.
C9_FullCloseSync ==
    (CycleOk /\ startInit) =>
        \A k \in Disappeared :
            /\ \E i \in 1..Len(emitted) :
                  /\ emitted[i].Symbol = CurrSym(k)
                  /\ IsFullClose(emitted[i], startSnap[k])
            /\ k \notin DOMAIN lastPositions

(* -------------------------------- C10 ---------------------------------- *)
\* C10 (disappearance close fields): a successful cycle after initialization
\* has sent, for every key with a non-zero snapshot size that it did not
\* fetch and for which a price was resolved, exactly one signal: close_long
\* (prev > 0) or close_short (prev < 0), notional_usd = |prev| * price,
\* delta_size = -prev, pos_before = prev, pos_after = 0, leader_leverage = 0,
\* margin_mode = ""; the snapshot has no entry for the key afterwards.
C10_DisappearanceCloseFields ==
    (CycleOk /\ startInit) =>
        \A k \in Disappeared \ unpriced :
            /\ \E i \in 1..Len(emitted) :
                  /\ IdxOf(CurrSym(k)) = {i}
                  /\ IsFullClose(emitted[i], startSnap[k])
                  /\ MapGet(lastPrices, CurrSym(k)) > 0
                  /\ emitted[i].NotionalUSD =
                        Abs(startSnap[k]) * MapGet(lastPrices, CurrSym(k))
                  /\ emitted[i].LeaderLeverage = 0
                  /\ emitted[i].MarginMode = ""
            /\ k \notin DOMAIN lastPositions

\* a long and a short position that both disappeared and were both closed
C10_Witness ==
    /\ CycleOk
    /\ startInit
    /\ unpriced = {}
    /\ Disappeared = PosKeys
    /\ \E k \in Disappeared : startSnap[k] < 0
    /\ Len(emitted) = 2

C12_AbortedCycleNoOp ==
    [][/\ (pc = "fetch" /\ cycleErr') =>
             /\ lastPositions' = lastPositions
             /\ lastPrices' = lastPrices
             /\ lastCursor' = lastCursor
             /\ initialized' = initialized
             /\ out' = out
             /\ emitted' = <<>>
             /\ pc' = "select"
       /\ (pc = "select" /\ cycleErr /\ pc' # pc) => pc' = "fetch"]_vars

\* an initialized Observer with a snapshot, a price and a moved cursor whose
\* last cycle returned an error and whose next tick is waiting
C12_Witness ==
    /\ pc = "select"
    /\ cycleErr
    /\ startInit
    /\ tickReady
    /\ lastPositions # EmptyMap
    /\ lastPrices # EmptyMap
    /\ lastCursor > 0

(* -------------------------------- C13 ---------------------------------- *)
\* the signals of Observer o in the sequence q, in the order of q
SignalsOf(q, o) == SelectSeq(q, LAMBDA s : s.Observer = o)

\* C13 (cycle ordering): for every Observer, what the consumer has received
\* from it, followed by what the channel still holds from it, is exactly what
\* it sent, in the order it sent it; so no signal of a later cycle of an
\* Observer is received before a signal of an earlier cycle of the same
\* Observer, whatever the capacity and whoever else sends.
C13_CycleOrdering ==
    /\ \A o \in DOMAIN sentLog :
          SignalsOf(recvLog, o) \o SignalsOf(out, o) = sentLog[o]
    /\ \A i, j \in 1..Len(recvLog) :
          (/\ recvLog[i].Observer = recvLog[j].Observer
           /\ recvLog[i].Cycle < recvLog[j].Cycle) => i < j

\* two Observers on a channel of capacity two, their signals of two cycles
\* received interleaved
C13_Witness ==
    /\ chanCap = 2
    /\ Len(recvLog) >= 4
    /\ recvLog[1].Observer # recvLog[2].Observer
    /\ recvLog[2].Observer # recvLog[3].Observer
    /\ \E i \in 1..Len(recvLog) : recvLog[i].Cycle = 2
    /\ Len(out) = 2

\* C14: stop is final. Once stopCh has been closed Run starts no new poll
\* cycle: from its select it never goes on to fetch again, so the only signals
\* sent after the stop are those of the cycle that was in flight.
C14_StopIsFinal ==
    [][(stopped /\ pc = "select") => pc' # "fetch"]_vars

SentSignals ==
    {emitted[i] : i \in 1..Len(emitted)} \cup {out[i] : i \in 1..Len(out)}

\* C16: every emitted Signal has notional_usd > 0 and leader_equity > 0.
C16_PositiveNotionalAndEquity ==
    \A s \in SentSignals : s.NotionalUSD > 0 /\ s.LeaderEquity > 0

\* one cycle has sent the change of a short position and then the close of a
\* symbol that disappeared
C16_Witness ==
    /\ Len(emitted) >= 2
    /\ emitted[1].DeltaSize < 0
    /\ emitted[1].LeaderPosAfter # 0
    /\ emitted[Len(emitted)].LeaderPosAfter = 0
    /\ emitted[Len(emitted)].MarginMode = ""

\* C17: every emitted Signal has leader_leverage >= 1.
C17_LeverageAtLeastOne ==
    \A s \in SentSignals : s.LeaderLeverage >= 1

\* C18: config normalization. normalizeCopyTradingConfig returns follow_ratio
\* 100 for an input ratio <= 0 and the input ratio otherwise; min_amount and
\* max_amount 0 when negative and unchanged otherwise; the three follow flags
\* all true when all three were false and unchanged otherwise; sync_leverage
\* and sync_margin_mode unchanged. Hence the result has follow_ratio > 0,
\* amounts >= 0 and at least one follow flag set.
C18_ConfigNormalization ==
    (call = "normalizeCopyTradingConfig") =>
        LET in == arg.Cfg
            r == ret.Cfg
            allOff == ~in.FollowOpen /\ ~in.FollowAdd /\ ~in.FollowReduce
        IN  /\ r.FollowRatio = IF in.FollowRatio <= 0 THEN 100 ELSE in.FollowRatio
            /\ r.MinAmount = IF in.MinAmount < 0 THEN 0 ELSE in.MinAmount
            /\ r.MaxAmount = IF in.MaxAmount < 0 THEN 0 ELSE in.MaxAmount
            /\ r.FollowOpen = (allOff \/ in.FollowOpen)
            /\ r.FollowAdd = (allOff \/ in.FollowAdd)
            /\ r.FollowReduce = (allOff \/ in.FollowReduce)
            /\ r.SyncLeverage = in.SyncLeverage
            /\ r.SyncMarginMode = in.SyncMarginMode
            /\ r.FollowRatio > 0
            /\ r.MinAmount >= 0
            /\ r.MaxAmount >= 0
            /\ (r.FollowOpen \/ r.FollowAdd \/ r.FollowReduce)

\* a configuration with ratio 0, a negative minimum, a positive maximum, no
\* follow flag and no leverage sync has been normalized
C18_Witness ==
    /\ call = "normalizeCopyTradingConfig"
    /\ arg.Cfg.FollowRatio = 0
    /\ arg.Cfg.MinAmount < 0
    /\ arg.Cfg.MaxAmount > 0
    /\ ~arg.Cfg.FollowOpen /\ ~arg.Cfg.FollowAdd /\ ~arg.Cfg.FollowReduce
    /\ ~arg.Cfg.SyncLeverage
    /\ ret.Cfg.FollowRatio = 100
    /\ ret.Cfg.FollowOpen

\* the stored document is empty, whitespace only, or json.Unmarshal returns an
\* error for it: invalid syntax, or a member whose type does not fit its field
CannotBeParsed(raw) ==
    \/ raw.Kind \in {"empty", "blank", "syntax"}
    \/ /\ raw.Kind = "object"
       /\ \E f \in DOMAIN raw.Members : raw.Members[f].Tag # "absent" /\
             IF f \in FloatFields THEN raw.Members[f].Tag # "number"
                                  ELSE raw.Members[f].Tag # "bool"

\* C19: parse fallback. For a stored document that is empty, whitespace only
\* or cannot be parsed, a type error on one member after other members were
\* decoded included, ParseCopyTradingConfig returns exactly
\* DefaultCopyTradingConfig().
C19_ParseFallback ==
    (call = "ParseCopyTradingConfig" /\ CannotBeParsed(arg.Raw)) =>
        ret.Cfg = DefaultCopyTradingConfig

\* C20: factory dispatch. NewProvider returns the Hyperliquid Observer for
\* "hyperliquid_wallet" and "hyperliquid", the OKX Observer for "okx_wallet"
\* and "okx", and for any other type no provider and the error
\* `unsupported signal source type`.
C20_FactoryDispatch ==
    (call = "NewProvider") =>
        /\ (arg.Type = "hyperliquid_wallet" \/ arg.Type = "hyperliquid") =>
              (ret.Provider = "hyperliquid" /\ ret.Err = "")
        /\ (arg.Type = "okx_wallet" \/ arg.Type = "okx") =>
              (ret.Provider = "okx" /\ ret.Err = "")
        /\ (/\ arg.Type # "hyperliquid_wallet" /\ arg.Type # "hyperliquid"
            /\ arg.Type # "okx_wallet" /\ arg.Type # "okx") =>
              (ret.Provider = "nil" /\ ret.Err = "unsupported signal source type")

\* the factory was called with the short name "okx" and built the OKX Observer
C20_Witness ==
    /\ call = "NewProvider"
    /\ arg.Type = "okx"
    /\ ret.Provider = "okx"
    /\ ret.Err = ""

\* C21: empty identifier. An Observer built with an identifier that is empty
\* after trimming never fetches: Run returns its error at once, no signal is
\* sent and the Observer's fields stay as constructed.
C21_EmptyIdentifier ==
    (identifier = "" \/ identifier = " ") =>
        /\ pc \in {"start", "failed"}
        /\ out = <<>>
        /\ emitted = <<>>
        /\ ~initialized
        /\ lastPositions = EmptyMap
        /\ lastPrices = EmptyMap
        /\ lastCursor = 0

\* Run of an Observer built with a whitespace-only identifier has returned
\* its error
C21_Witness ==
    /\ identifier = " "
    /\ pc = "failed"

\* the flag the configuration must have set for the signal to be followed
RequiredFlag(signal, C) ==
    IF signal.Action = "open_long" \/ signal.Action = "open_short"
    THEN C.FollowOpen
    ELSE IF signal.Action = "add_long" \/ signal.Action = "add_short"
    THEN C.FollowAdd
    ELSE C.FollowReduce

\* C22: sizing gate. An order is produced for an open_* signal only if
\* follow_open is set, for an add_* signal only if follow_add is set, for a
\* reduce_* or close_* signal only if follow_reduce is set; with the flag
\* unset the decision is "skipped" and there is no order.
C22_SizingGate ==
    (call = "Translate") =>
        /\ (ret.Decision = "order") => RequiredFlag(arg.Signal, arg.Cfg)
        /\ ~RequiredFlag(arg.Signal, arg.Cfg) => (ret.Decision = "skipped")

\* an add_long signal was skipped under a configuration that follows opens
\* and reduces but not adds
C22_Witness ==
    /\ call = "Translate"
    /\ arg.Signal.Action = "add_long"
    /\ arg.Cfg.FollowOpen /\ arg.Cfg.FollowReduce /\ ~arg.Cfg.FollowAdd
    /\ ret.Decision = "skipped"

\* C23: bounded notional. For every open/add signal that is followed and every
\* normalized configuration with min_amount > 0 and max_amount > 0 the sized
\* follower_notional lies in [min_amount, max_amount], and the min/max
\* triggered flags tell which bound replaced the computed value.
C23_BoundedNotional ==
    (/\ call = "Translate"
     /\ ret.Decision = "order"
     /\ arg.Signal.Action \in {"open_long", "open_short", "add_long", "add_short"}
     /\ arg.Cfg.MinAmount > 0
     /\ arg.Cfg.MaxAmount > 0) =>
        /\ ~RLess(ret.Notional, RInt(arg.Cfg.MinAmount))
        /\ ~RLess(RInt(arg.Cfg.MaxAmount), ret.Notional)
        /\ ret.MinTriggered = RLess(ret.Computed, RInt(arg.Cfg.MinAmount))
        /\ ret.MaxTriggered = RLess(RInt(arg.Cfg.MaxAmount), ret.Computed)

\* the leader's share notional / equity applied to the follower's equity and
\* the follow ratio: the leverage cancels
ShareOfEquity(signal, Ef, C) ==
    RMul(RMul(Rat(signal.NotionalUSD, signal.LeaderEquity), RInt(Ef)),
         Rat(C.FollowRatio, 100))

\* the signal of the spec's sizing examples
IsExampleSignal(signal) ==
    /\ signal.Action = "open_long"
    /\ signal.NotionalUSD = 18000
    /\ signal.LeaderLeverage = 10
    /\ signal.LeaderEquity = 100000

\* C24: open/add sizing formula. Before bounds follower_notional is
\* (notional / max(leverage, 1)) / leader_equity * follower_equity *
\* (follow_ratio / 100) * max(leverage, 1). Notional 18000, leverage 10,
\* leader equity 100000, follower equity 5000, ratio 100, min 10, max 0 give
\* 900 with no bound fired and target leverage 10; follower equity 100 with
\* min 50 gives 18, raised to 50 with min_triggered.
C24_OpenAddSizing ==
    (/\ call = "Translate"
     /\ ret.Decision = "order"
     /\ arg.Signal.Action \in {"open_long", "open_short", "add_long", "add_short"}) =>
        /\ ret.Computed = ShareOfEquity(arg.Signal, arg.Ef, arg.Cfg)
        /\ (/\ IsExampleSignal(arg.Signal)
            /\ arg.Cfg.FollowRatio = 100 /\ arg.Cfg.MaxAmount = 0
            /\ arg.Cfg.SyncLeverage) =>
              /\ (arg.Ef = 5000 /\ arg.Cfg.MinAmount = 10) =>
                    /\ ret.Computed = RInt(900)
                    /\ ret.Notional = RInt(900)
                    /\ ~ret.MinTriggered /\ ~ret.MaxTriggered
                    /\ ret.Leverage = 10
              /\ (arg.Ef = 100 /\ arg.Cfg.MinAmount = 50) =>
                    /\ ret.Computed = RInt(18)
                    /\ ret.Notional = RInt(50)
                    /\ ret.MinTriggered /\ ~ret.MaxTriggered

\* the second example has been sized: 18 raised to the minimum 50
C24_Witness ==
    /\ call = "Translate"
    /\ IsExampleSignal(arg.Signal)
    /\ arg.Ef = 100
    /\ arg.Cfg.FollowRatio = 100 /\ arg.Cfg.MinAmount = 50
    /\ arg.Cfg.MaxAmount = 0
    /\ ret.Decision = "order"
    /\ ret.Notional = RInt(50)
    /\ ret.MinTriggered

\* C25: reduce/close sizing. For a followed reduce_* or close_* signal with
\* leader_pos_after # 0 the follower closes follower_pos_size * |delta_size| /
\* |leader_pos_before|, which is never more than its position; with
\* leader_pos_after = 0 it closes its entire position.
C25_ReduceCloseSizing ==
    (/\ call = "Translate"
     /\ ret.Decision = "order"
     /\ arg.Signal.Action \in {"reduce_long", "reduce_short",
                               "close_long", "close_short"}) =>
        IF arg.Signal.LeaderPosAfter # 0
        THEN /\ Abs(arg.Signal.LeaderPosBefore) * ret.CloseSize.n =
                   Abs(arg.Pos) * Abs(arg.Signal.DeltaSize) * ret.CloseSize.d
             /\ ret.CloseSize.n <= Abs(arg.Pos) * ret.CloseSize.d
        ELSE ret.CloseSize = RInt(Abs(arg.Pos))

\* a reduce that leaves the leader half of its position has been sized for a
\* follower holding 4, which closes 2
C25_Witness ==
    /\ call = "Translate"
    /\ arg.Signal.Action = "reduce_long"
    /\ arg.Signal.LeaderPosBefore = 2
    /\ arg.Signal.LeaderPosAfter = 1
    /\ arg.Pos = 4
    /\ ret.Decision = "order"
    /\ ret.CloseSize = RInt(2)

\* id, symbol, price and sort key of a fetched fill of either venue
FillId(f) == IF IsHL THEN f.TID ELSE f.FillTime
FillSym(f) ==
    IF IsHL THEN convertHyperliquidSymbol(f.Coin) ELSE formatOKXSymbol(f.InstID)
FillPx(f) == IF IsHL THEN f.Px ELSE f.AvgPx
FillBefore(f, g) ==
    IF IsHL THEN f.Time < g.Time \/ (f.Time = g.Time /\ f.TID < g.TID)
    ELSE f.FillTime < g.FillTime \/ (f.FillTime = g.FillTime /\ f.OrdID < g.OrdID)

\* the fetched fills of symbol s with a price, whose id is after the cursor
\* the cycle started with
PricedNewFills(s) ==
    {i \in 1..Len(arg) : /\ FillId(arg[i]) > ret.cursor
                         /\ FillSym(arg[i]) = s
                         /\ FillPx(arg[i]) > 0}

\* the cache holds, for every symbol with such fills, the price of one that
\* is last in (timestamp, id) order, and is unchanged for the other symbols
CacheHasLastPrices ==
    \A s \in OKXSymbols :
        IF PricedNewFills(s) # {}
        THEN \E i \in PricedNewFills(s) :
                /\ \A j \in PricedNewFills(s) : ~FillBefore(arg[i], arg[j])
                /\ s \in DOMAIN lastPrices
                /\ lastPrices[s] = FillPx(arg[i])
        ELSE /\ (s \in DOMAIN lastPrices) = (s \in DOMAIN ret.lastPrices)
             /\ MapGet(lastPrices, s) = MapGet(ret.lastPrices, s)

\* the cursor is the maximum of the old cursor and the ids of all fetched fills
CursorIsMaximum ==
    /\ lastCursor >= ret.cursor
    /\ \A i \in 1..Len(arg) : lastCursor >= FillId(arg[i])
    /\ lastCursor = ret.cursor \/ \E i \in 1..Len(arg) : lastCursor = FillId(arg[i])

\* C26: fill ingestion. After the fill loop of a successful cycle the price
\* cache holds the price of the last fetched fill per symbol among those whose
\* id is after the cursor the cycle started with, fills at or before that
\* cursor have changed nothing, and the cursor is the maximum of the old
\* cursor and the ids of all fetched fills.
C26_FillIngestion ==
    (call # "") => (CacheHasLastPrices /\ CursorIsMaximum)

(* ------------------------------- C27 ----------------------------------- *)
\* the signal built by the step has the notional |change| * p
NotionalAtPrice(p) ==
    pending'.NotionalUSD =
        Abs(pending'.LeaderPosAfter - pending'.LeaderPosBefore) * p

\* a step of the first loop or of the sweep that builds a signal
BuildsSignal ==
    /\ pc \in {"diff", "sweep"}
    /\ pc' \in {"send", "flip_close", "sweep_send"}

\* C27: price resolution order. Whenever a step of the diff loop or of the
\* sweep builds a signal, its notional is computed with the price the cache
\* held for the symbol if that price is positive; otherwise with the
\* CurrentPrice of a market-data answer that has no error and is positive
C27_PriceResolutionOrder ==
    [][BuildsSignal =>
         LET cached == MapGet(lastPrices, pending'.Symbol)
         IN  IF cached > 0
             THEN NotionalAtPrice(cached)
             ELSE \E md \in MarketAnswers :
                    /\ ~md.err
                    /\ md.CurrentPrice > 0
                    /\ NotionalAtPrice(md.CurrentPrice)]_vars

\* a signal was built at the fill price 3 of the cache, a price the market
\* data never answers
C27_Witness ==
    /\ pc \in {"send", "flip_close", "sweep_send"}
    /\ MapGet(lastPrices, pending.Symbol) = 3
    /\ pending.NotionalUSD =
           Abs(pending.LeaderPosAfter - pending.LeaderPosBefore) * 3
    /\ pending.NotionalUSD > 0

(* ------------------------------- C28 ----------------------------------- *)
\* the step ingests a fill of symbol k at price v: it is the fetch of a
\* cycle, and a response it may have received holds such a fill
IngestsFillAt(k, v) ==
    /\ pc = "fetch"
    /\ \E b \in PricedFills : \E i \in 1..Len(b) :
          FillSym(b[i]) = k /\ FillPx(b[i]) = v

\* C28: price cache content. After every step each value of the price cache
\* is positive, and an entry that the step added or changed is the price of
\* a fill of that symbol ingested by the step
C28_PriceCacheContent ==
    [][\A k \in DOMAIN lastPrices' :
         /\ lastPrices'[k] > 0
         /\ (k \notin DOMAIN lastPrices \/ lastPrices'[k] # lastPrices[k])
              => IngestsFillAt(k, lastPrices'[k])]_vars

(* ------------------------------- C29 ----------------------------------- *)
\* C29: leverage floor. Every position record the adapter returned to the
\* cycle carries an integer leverage of at least 1
C29_LeverageFloor ==
    \A k \in DOMAIN positions : positions[k].Leverage >= 1

(* ------------------------------- C30 ----------------------------------- *)
\* the size string of a record is a number
IsNumber(szi) == szi \in {"0", "1", "2", "-1"}

\* C30: unparseable numbers are filtered. No signal sent in a cycle is for
\* the symbol of a position record of that cycle whose size string failed
\* to parse
C30_UnparseableFiltered ==
    \A k \in DOMAIN positions :
        ~IsNumber(positions[k].Szi) =>
            \A i \in 1..Len(emitted) : emitted[i].Symbol # CurrSym(k)

(* ------------------------------- C31 ----------------------------------- *)
\* the sum of delta_size over the signals of q that are for symbol s
RECURSIVE DeltaSum(_, _)
DeltaSum(q, s) ==
    IF q = <<>> THEN 0
    ELSE (IF Head(q).Symbol = s THEN Head(q).DeltaSize ELSE 0)
         + DeltaSum(Tail(q), s)

\* C31: delta conservation. At the end of every successful cycle after
\* initialization and for every key, the snapshot size the cycle started
\* with (0 if absent) plus the sum of delta_size over the signals the cycle
\* sent for the key's symbol is the snapshot size the cycle ends with (0 if
\* absent). The initialization cycle sends nothing, so cycle by cycle the
\* size recorded at initialization plus all deltas sent so far is the
\* current snapshot size.
C31_DeltaConservation ==
    (CycleOk /\ startInit) =>
        \A k \in PosKeys :
            MapGet(startSnap, k) + DeltaSum(emitted, CurrSym(k))
                = MapGet(lastPositions, k)

(* ------------------------------- C32 ----------------------------------- *)
\* C32: variant equivalence. After every cycle that the Hyperliquid and the
\* OKX Observer ran on the same normalized responses and the same
\* market-data answers, from the same history, the two have sent the same
\* signals with the same field values and hold the same snapshot
C32_VariantEquivalence ==
    call = "cycle" =>
        /\ ret.hl.signals = ret.okx.signals
        /\ ret.hl.snap = ret.okx.snap

====
